---- MODULE Spec2Model ----
(***************************************************************************)
(* vibe-clock: collectors -> aggregate -> sanitize -> push.                *)
(*                                                                         *)
(* Python strings are modelled by name (a TLA+ string) together with the   *)
(* table Chars, which gives the characters of each name; the serialized    *)
(* output (model_dump_json) is a sequence of one-character strings, so     *)
(* that substring and regular-expression searches are real searches.      *)
(* Times are whole hours since 2026-02-01T00:00Z; a date is a day index.   *)
(***************************************************************************)
EXTENDS Integers, Sequences, FiniteSets, TLC

VARIABLES
    USERNAME,      \* sanitizer._USERNAME (getpass.getuser(), read at import)
    HOME_DIR,      \* sanitizer._HOME_DIR (str(Path.home()), read at import)
    now,           \* datetime.now(timezone.utc), in hours
    config,        \* the Config handed to aggregate / sanitize
    sessions,      \* the list of Session handed to aggregate
    stats,         \* the AgentStats handed to sanitize
    data,          \* sanitize: the working copy that is validated and returned
    json_str,      \* _validate_no_pii: the serialized form that is scanned
    error,         \* the ValueError sanitize raised, "none" if it returned
    san_pc,        \* position of the sanitize call: "call", "returned", "raised"
    cfg_file,      \* the values held by ~/.config/vibe-clock/config.toml
    environ,       \* os.environ: GITHUB_TOKEN, VIBE_CLOCK_GIST_ID, VIBE_CLOCK_DAYS
    args,          \* the options of the running push command: dry_run, days
    push_pc,       \* position of the push command
    requests,      \* the HTTP requests the running push command has sent
    response,      \* the HTTP response it received
    saves,         \* the save_config calls of the running push command
    runs,          \* push commands started so far
    cc_files,      \* claude_code: the JSONL files under projects/, in rglob order
    cc_file,       \* claude_code: index of the file being read
    cc_line,       \* claude_code: number of lines of that file already read
    cc_seen,       \* claude_code: the lines read so far (history)
    cc_sessions,   \* claude_code: the dict sessionId -> _SessionAcc
    cc_result,     \* claude_code: the list collect() returned
    cc_pc,         \* claude_code: "idle", "read", "returned", "raised"
    cx_files,      \* codex: the rollout files under sessions/, in rglob order
    cx_file,       \* codex: index of the file being parsed
    cx_failed,     \* codex: the files whose read raised OSError (history)
    cx_result,     \* codex: the list collect() is building / returned
    cx_pc,         \* codex: "idle", "read", "returned", "raised"
    oc_ses,        \* opencode: the storage/session/**/ses_*.json files, in rglob order
    oc_msgs,       \* opencode: the storage/message/<id>/msg_*.json files, in glob order
    oc_file,       \* opencode: index of the session file being parsed
    oc_result,     \* opencode: the list collect() is building / returned
    oc_pc,         \* opencode: "idle", "read", "returned", "raised"
    gm_files,      \* gemini_cli: the tmp/**/session-*.json files, in rglob order
    gm_tmp,        \* gemini_cli: whether <data root>/tmp exists
    gm_result,     \* gemini_cli: the list collect() returned
    gm_pc,         \* gemini_cli: "idle", "call", "returned", "raised"
    agg_pc,        \* position of a bare aggregate call: "idle", "call", "returned", ...
    agg_first,     \* the arguments and the result of the first of two aggregate calls
    enabled_agents,  \* get_collectors: config.enabled_agents
    existing_roots,  \* get_collectors: the agents whose configured data root exists
    collectors,    \* get_collectors: agent_name of the collectors it returned
    gc_pc,         \* position of a get_collectors call: "idle", "call", "returned"
    crontab,       \* the user's crontab, the text  crontab -l  prints
    cron_original, \* the crontab before the first scheduler call (history)
    cron_calls,    \* the CrontabScheduler calls made so far (history)
    cron_pc,       \* "idle", or "ready" when the scheduler can be called
    lc_pc          \* position of a bare load_config call: "idle", "call", "returned"

sanVars == <<USERNAME, HOME_DIR, now, config, sessions, stats, data, json_str,
             error, san_pc>>

pushVars == <<cfg_file, environ, args, push_pc, requests, response, saves, runs>>

claudeVars == <<cc_files, cc_file, cc_line, cc_seen, cc_sessions, cc_result, cc_pc>>

codexVars == <<cx_files, cx_file, cx_failed, cx_result, cx_pc>>

openVars == <<oc_ses, oc_msgs, oc_file, oc_result, oc_pc>>

geminiVars == <<gm_files, gm_tmp, gm_result, gm_pc>>

aggVars == <<agg_pc, agg_first>>

toolVars == <<enabled_agents, existing_roots, collectors, gc_pc,
              crontab, cron_original, cron_calls, cron_pc, lc_pc>>

collectorVars == <<claudeVars, codexVars, openVars, geminiVars, aggVars, toolVars>>

\* no get_collectors call is under way and the scheduler is not in use
ToolsIdle ==
    /\ enabled_agents = <<>> /\ existing_roots = {} /\ collectors = <<>> /\ gc_pc = "idle"
    /\ crontab = <<>> /\ cron_original = <<>> /\ cron_calls = <<>> /\ cron_pc = "idle"
    /\ lc_pc = "idle"

vars == <<sanVars, pushVars, collectorVars>>

\* no collector is running
CollectorsIdle ==
    /\ cc_files = <<>> /\ cc_file = 0 /\ cc_line = 0 /\ cc_seen = <<>>
    /\ cc_sessions = [keys |-> <<>>, val |-> <<>>] /\ cc_result = <<>> /\ cc_pc = "idle"
    /\ cx_files = <<>> /\ cx_file = 0
    /\ cx_failed = {} /\ cx_result = <<>> /\ cx_pc = "idle"
    /\ oc_ses = <<>> /\ oc_msgs = <<>> /\ oc_file = 0 /\ oc_result = <<>> /\ oc_pc = "idle"
    /\ gm_files = <<>> /\ gm_tmp = FALSE /\ gm_result = <<>> /\ gm_pc = "idle"
    /\ agg_pc = "idle" /\ agg_first = <<>>
    /\ ToolsIdle

\* neither the opencode nor the gemini_cli collector nor a bare aggregate
\* call is running
OthersIdle ==
    /\ oc_ses = <<>> /\ oc_msgs = <<>> /\ oc_file = 0 /\ oc_result = <<>> /\ oc_pc = "idle"
    /\ gm_files = <<>> /\ gm_tmp = FALSE /\ gm_result = <<>> /\ gm_pc = "idle"
    /\ agg_pc = "idle" /\ agg_first = <<>>
    /\ ToolsIdle

----------------------------------------------------------------------------
(* Bounds *)

MaxSessions == 2      \* longest session list handed to aggregate
MaxPushSessions == 1  \* longest session list the collectors hand to push
MaxRuns == 2          \* push commands run one after the other
MaxFiles == 2         \* log files under one collector's data root
MaxRecords == 3       \* lines in all the log files of one collector together
MaxEnabled == 3       \* longest config.enabled_agents list
MaxCronLines == 2     \* lines of the crontab before the first scheduler call
MaxCalls == 3         \* scheduler calls made one after the other
MaxMessages == 2      \* message files of one opencode session, messages of one gemini session

----------------------------------------------------------------------------
(* Characters and strings *)

Letters ==
    {"a", "b", "c", "d", "e", "f", "g", "h", "i", "j", "k", "l", "m",
     "n", "o", "p", "q", "r", "s", "t", "u", "v", "w", "x", "y", "z",
     "A", "B", "C", "D", "E", "F", "G", "H", "I", "J", "K", "L", "M",
     "N", "O", "P", "Q", "R", "S", "T", "U", "V", "W", "X", "Y", "Z"}

DigitChars == {"0", "1", "2", "3", "4", "5", "6", "7", "8", "9"}

\* \w of Python's re module for ASCII text: [a-zA-Z0-9_]
WordChars == Letters \cup DigitChars \cup {"_"}

\* the character class [a-zA-Z0-9._-] of _PATH_PATTERN
PathSegmentChars == Letters \cup DigitChars \cup {".", "_", "-"}

Chars(name) ==
    CASE name = "" -> <<>>
      [] name = "claude_code" -> <<"c", "l", "a", "u", "d", "e", "_", "c", "o", "d", "e">>
      [] name = "codex" -> <<"c", "o", "d", "e", "x">>
      [] name = "unknown" -> <<"u", "n", "k", "n", "o", "w", "n">>
      [] name = "<synthetic>" -> <<"<", "s", "y", "n", "t", "h", "e", "t", "i", "c", ">">>
      [] name = "gpt-5" -> <<"g", "p", "t", "-", "5">>
      [] name = "dex" -> <<"d", "e", "x">>
      [] name = "dex_1" -> <<"d", "e", "x", "_", "1">>
      [] name = "de" -> <<"d", "e">>
      [] name = "/home/de/llm" -> <<"/", "h", "o", "m", "e", "/", "d", "e", "/", "l", "l", "m">>
      [] name = "safe-name" -> <<"s", "a", "f", "e", "-", "n", "a", "m", "e">>
      [] name = "/home/de/proj" -> <<"/", "h", "o", "m", "e", "/", "d", "e", "/", "p", "r", "o", "j">>
      [] name = "/home/dex" -> <<"/", "h", "o", "m", "e", "/", "d", "e", "x">>
      [] name = "/home/de" -> <<"/", "h", "o", "m", "e", "/", "d", "e">>
      [] name = "/data/de" -> <<"/", "d", "a", "t", "a", "/", "d", "e">>
      [] name = "safe*" -> <<"s", "a", "f", "e", "*">>

\* Python's  p in s  on strings
Contains(s, p) ==
    \E i \in 1..(Len(s) - Len(p) + 1) :
        \A j \in 1..Len(p) : s[i + j - 1] = p[j]

\* p occurs in s starting at position i
OccursAt(s, p, i) ==
    /\ i >= 1
    /\ i + Len(p) - 1 <= Len(s)
    /\ \A j \in 1..Len(p) : s[i + j - 1] = p[j]

RECURSIVE Concat(_)
Concat(ss) == IF ss = <<>> THEN <<>> ELSE Head(ss) \o Concat(Tail(ss))

RECURSIVE Join(_, _)
Join(ss, sep) ==
    IF ss = <<>> THEN <<>>
    ELSE IF Len(ss) = 1 THEN ss[1]
    ELSE ss[1] \o sep \o Join(Tail(ss), sep)

DigitOf(d) ==
    CASE d = 0 -> "0" [] d = 1 -> "1" [] d = 2 -> "2" [] d = 3 -> "3"
      [] d = 4 -> "4" [] d = 5 -> "5" [] d = 6 -> "6" [] d = 7 -> "7"
      [] d = 8 -> "8" [] d = 9 -> "9"

\* str(n) for an int n >= 0
RECURSIVE IntStr(_)
IntStr(n) == IF n < 10 THEN <<DigitOf(n)>> ELSE IntStr(n \div 10) \o <<DigitOf(n % 10)>>

TwoDigits(n) == <<DigitOf(n \div 10), DigitOf(n % 10)>>

\* a float holding a whole number serializes as "<n>.0"
FloatStr(n) == IntStr(n) \o <<".", "0">>

\* date.isoformat(): day index d is 2026-02-(d+1)
DateStr(d) == <<"2", "0", "2", "6", "-", "0", "2", "-">> \o TwoDigits(d + 1)

\* datetime serialization: hour t is 2026-02-(t div 24 + 1)T(t mod 24):00:00Z
DateTimeStr(t) ==
    DateStr(t \div 24) \o <<"T">> \o TwoDigits(t % 24) \o <<":", "0", "0", ":", "0", "0", "Z">>

----------------------------------------------------------------------------
(* models.py: field names of the serialized AgentStats *)

K ==
    [generated_at |-> <<"g", "e", "n", "e", "r", "a", "t", "e", "d", "_", "a", "t">>,
     days_covered |-> <<"d", "a", "y", "s", "_", "c", "o", "v", "e", "r", "e", "d">>,
     total_sessions |-> <<"t", "o", "t", "a", "l", "_", "s", "e", "s", "s", "i", "o", "n", "s">>,
     total_messages |-> <<"t", "o", "t", "a", "l", "_", "m", "e", "s", "s", "a", "g", "e", "s">>,
     total_minutes |-> <<"t", "o", "t", "a", "l", "_", "m", "i", "n", "u", "t", "e", "s">>,
     total_tokens |-> <<"t", "o", "t", "a", "l", "_", "t", "o", "k", "e", "n", "s">>,
     input_tokens |-> <<"i", "n", "p", "u", "t", "_", "t", "o", "k", "e", "n", "s">>,
     output_tokens |-> <<"o", "u", "t", "p", "u", "t", "_", "t", "o", "k", "e", "n", "s">>,
     cache_read_tokens |-> <<"c", "a", "c", "h", "e", "_", "r", "e", "a", "d", "_", "t", "o", "k", "e", "n", "s">>,
     cache_write_tokens |-> <<"c", "a", "c", "h", "e", "_", "w", "r", "i", "t", "e", "_", "t", "o", "k", "e", "n", "s">>,
     active_agents |-> <<"a", "c", "t", "i", "v", "e", "_", "a", "g", "e", "n", "t", "s">>,
     favorite_model |-> <<"f", "a", "v", "o", "r", "i", "t", "e", "_", "m", "o", "d", "e", "l">>,
     peak_hour |-> <<"p", "e", "a", "k", "_", "h", "o", "u", "r">>,
     longest_session_minutes |-> <<"l", "o", "n", "g", "e", "s", "t", "_", "s", "e", "s", "s", "i", "o", "n", "_", "m", "i", "n", "u", "t", "e", "s">>,
     hourly |-> <<"h", "o", "u", "r", "l", "y">>,
     daily |-> <<"d", "a", "i", "l", "y">>,
     date |-> <<"d", "a", "t", "e">>,
     session_count |-> <<"s", "e", "s", "s", "i", "o", "n", "_", "c", "o", "u", "n", "t">>,
     message_count |-> <<"m", "e", "s", "s", "a", "g", "e", "_", "c", "o", "u", "n", "t">>,
     tokens |-> <<"t", "o", "k", "e", "n", "s">>,
     models |-> <<"m", "o", "d", "e", "l", "s">>,
     model |-> <<"m", "o", "d", "e", "l">>,
     projects |-> <<"p", "r", "o", "j", "e", "c", "t", "s">>,
     project |-> <<"p", "r", "o", "j", "e", "c", "t">>,
     agent |-> <<"a", "g", "e", "n", "t">>]

----------------------------------------------------------------------------
(* BaseModel.model_dump_json(indent=None | 2) *)

RECURSIVE Spaces(_)
Spaces(n) == IF n <= 0 THEN <<>> ELSE <<" ">> \o Spaces(n - 1)

\* line break and indentation written in front of an item at nesting depth
\* d; nothing in the compact form
Brk(indent, d) == IF indent THEN <<"\n">> \o Spaces(2 * d) ELSE <<>>

Quoted(cs) == <<"\"">> \o cs \o <<"\"">>

\* one  "key": value  member
Member(indent, key, value) ==
    Quoted(key) \o <<":">> \o (IF indent THEN <<" ">> ELSE <<>>) \o value

\* a JSON object at depth d; members are already serialized at depth d + 1
JsonObject(indent, d, members) ==
    <<"{">> \o Brk(indent, d + 1)
        \o Join(members, <<",">> \o Brk(indent, d + 1))
        \o Brk(indent, d) \o <<"}">>

\* a JSON array at depth d; an empty list is written "[]"
JsonArray(indent, d, items) ==
    IF items = <<>> THEN <<"[", "]">>
    ELSE <<"[">> \o Brk(indent, d + 1)
             \o Join(items, <<",">> \o Brk(indent, d + 1))
             \o Brk(indent, d) \o <<"]">>

DumpTokenUsage(indent, d, t) ==
    JsonObject(indent, d, <<
        Member(indent, K.input_tokens, IntStr(t.input_tokens)),
        Member(indent, K.output_tokens, IntStr(t.output_tokens)),
        Member(indent, K.cache_read_tokens, IntStr(t.cache_read_tokens)),
        Member(indent, K.cache_write_tokens, IntStr(t.cache_write_tokens)) >>)

DumpDailyActivity(indent, d, x) ==
    JsonObject(indent, d, <<
        Member(indent, K.date, Quoted(DateStr(x.date))),
        Member(indent, K.session_count, IntStr(x.session_count)),
        Member(indent, K.message_count, IntStr(x.message_count)),
        Member(indent, K.total_minutes, FloatStr(x.total_minutes)),
        Member(indent, K.tokens, DumpTokenUsage(indent, d + 1, x.tokens)) >>)

DumpModelBreakdown(indent, d, x) ==
    JsonObject(indent, d, <<
        Member(indent, K.model, Quoted(Chars(x.model))),
        Member(indent, K.session_count, IntStr(x.session_count)),
        Member(indent, K.message_count, IntStr(x.message_count)),
        Member(indent, K.total_minutes, FloatStr(x.total_minutes)),
        Member(indent, K.tokens, DumpTokenUsage(indent, d + 1, x.tokens)) >>)

DumpProjectBreakdown(indent, d, x) ==
    JsonObject(indent, d, <<
        Member(indent, K.project, Quoted(Chars(x.project))),
        Member(indent, K.agent, Quoted(Chars(x.agent))),
        Member(indent, K.session_count, IntStr(x.session_count)),
        Member(indent, K.total_minutes, FloatStr(x.total_minutes)),
        Member(indent, K.tokens, DumpTokenUsage(indent, d + 1, x.tokens)) >>)

\* AgentStats.model_dump_json: the fields in declaration order
DumpJson(st, indent) ==
    JsonObject(indent, 0, <<
        Member(indent, K.generated_at, Quoted(DateTimeStr(st.generated_at))),
        Member(indent, K.days_covered, IntStr(st.days_covered)),
        Member(indent, K.total_sessions, IntStr(st.total_sessions)),
        Member(indent, K.total_messages, IntStr(st.total_messages)),
        Member(indent, K.total_minutes, FloatStr(st.total_minutes)),
        Member(indent, K.total_tokens, DumpTokenUsage(indent, 1, st.total_tokens)),
        Member(indent, K.active_agents,
               JsonArray(indent, 1, [i \in 1..Len(st.active_agents) |->
                                        Quoted(Chars(st.active_agents[i]))])),
        Member(indent, K.favorite_model, Quoted(Chars(st.favorite_model))),
        Member(indent, K.peak_hour, IntStr(st.peak_hour)),
        Member(indent, K.longest_session_minutes, FloatStr(st.longest_session_minutes)),
        Member(indent, K.hourly,
               JsonArray(indent, 1, [i \in 1..Len(st.hourly) |-> IntStr(st.hourly[i])])),
        Member(indent, K.daily,
               JsonArray(indent, 1, [i \in 1..Len(st.daily) |->
                                        DumpDailyActivity(indent, 2, st.daily[i])])),
        Member(indent, K.models,
               JsonArray(indent, 1, [i \in 1..Len(st.models) |->
                                        DumpModelBreakdown(indent, 2, st.models[i])])),
        Member(indent, K.projects,
               JsonArray(indent, 1, [i \in 1..Len(st.projects) |->
                                        DumpProjectBreakdown(indent, 2, st.projects[i])])) >>)

----------------------------------------------------------------------------
(* models.py: value types *)

\* an absent Optional value (end_time = None) is the empty sequence, a
\* present one the one-element sequence
None == <<>>

Some(x) == <<x>>

EmptyTokens ==
    [input_tokens |-> 0, output_tokens |-> 0,
     cache_read_tokens |-> 0, cache_write_tokens |-> 0]

\* Session.duration_minutes
DurationMinutes(s) ==
    IF s.end_time = None THEN 0 ELSE (s.end_time[1] - s.start_time) * 60

\* datetime.date() and datetime.hour of a time in hours
DateOf(t) == t \div 24

HourOf(t) == t % 24

\* AgentStats(days_covered=days) with every other field left at its default
DefaultStats(days, generated) ==
    [generated_at |-> generated,
     days_covered |-> days,
     total_sessions |-> 0,
     total_messages |-> 0,
     total_minutes |-> 0,
     total_tokens |-> EmptyTokens,
     active_agents |-> <<>>,
     favorite_model |-> "",
     peak_hour |-> 0,
     longest_session_minutes |-> 0,
     hourly |-> [h \in 1..24 |-> 0],
     daily |-> <<>>,
     models |-> <<>>,
     projects |-> <<>>]

----------------------------------------------------------------------------
(* Python containers *)

\* a dict: its keys in insertion order and its values
EmptyDict == [keys |-> <<>>, val |-> <<>>]

HasKey(d, k) == k \in DOMAIN d.val

\* d[k] of a defaultdict whose factory gives dflt
DictGet(d, k, dflt) == IF HasKey(d, k) THEN d.val[k] ELSE dflt

\* d[k] = v: a new key goes to the end of the iteration order
DictPut(d, k, v) ==
    [keys |-> IF HasKey(d, k) THEN d.keys ELSE Append(d.keys, k),
     val |-> (k :> v) @@ d.val]

\* the last item whose key value is maximal
MaxLast(pairs) ==
    LET i == CHOOSE i \in 1..Len(pairs) :
                 /\ \A j \in 1..Len(pairs) : pairs[j][1] <= pairs[i][1]
                 /\ \A j \in (i + 1)..Len(pairs) : pairs[j][1] < pairs[i][1]
    IN pairs[i][2]

\* max(keys, key=...) over a non-empty sequence of <<key value, item>>
\* pairs: the first item whose key value is maximal
MaxFirst(pairs) ==
    LET i == CHOOSE i \in 1..Len(pairs) :
                 /\ \A j \in 1..Len(pairs) : pairs[j][1] <= pairs[i][1]
                 /\ \A j \in 1..(i - 1) : pairs[j][1] < pairs[i][1]
    IN pairs[i][2]

\* min(...) / max(...) of a non-empty list of numbers
MinOf(xs) == CHOOSE x \in {xs[i] : i \in 1..Len(xs)} : \A j \in 1..Len(xs) : x <= xs[j]

MaxOf(xs) == CHOOSE x \in {xs[i] : i \in 1..Len(xs)} : \A j \in 1..Len(xs) : x >= xs[j]

\* insert pair p in front of the pairs with the same key value (a sort that
\* turns ties around)
RECURSIVE InsertBeforeEqual(_, _, _)
InsertBeforeEqual(out, p, reverse) ==
    IF out = <<>> THEN <<p>>
    ELSE IF (IF reverse THEN Head(out)[1] <= p[1] ELSE Head(out)[1] >= p[1])
         THEN <<p>> \o out
         ELSE <<Head(out)>> \o InsertBeforeEqual(Tail(out), p, reverse)

\* insert pair p into the sorted sequence out behind every pair that does
\* not have to come after it (the sort is stable)
RECURSIVE InsertStable(_, _, _)
InsertStable(out, p, reverse) ==
    IF out = <<>> THEN <<p>>
    ELSE IF (IF reverse THEN Head(out)[1] < p[1] ELSE Head(out)[1] > p[1])
         THEN <<p>> \o out
         ELSE <<Head(out)>> \o InsertStable(Tail(out), p, reverse)

RECURSIVE SortPairs(_, _, _)
SortPairs(pairs, out, reverse) ==
    IF pairs = <<>> THEN out
    ELSE SortPairs(Tail(pairs), InsertStable(out, Head(pairs), reverse), reverse)

\* sorted(items, key=...) whatever reverse says
SortedAscending(pairs, reverse) ==
    LET r == SortPairs(pairs, <<>>, FALSE)
    IN [i \in 1..Len(r) |-> r[i][2]]

\* sorted(items, key=..., reverse=...) over <<key value, item>> pairs:
\* stable, also with reverse=True
Sorted(pairs, reverse) ==
    LET r == SortPairs(pairs, <<>>, reverse)
    IN [i \in 1..Len(r) |-> r[i][2]]

\* sorted(set of strings): the agent names in alphabetical order
AgentOrder == <<"claude_code", "codex", "gemini_cli", "opencode">>

SortedAgents(S) == SelectSeq(AgentOrder, LAMBDA a : a \in S)

----------------------------------------------------------------------------
(* aggregator.py *)

\* _add_tokens: target += source, field by field
AddTokens(target, source) ==
    [input_tokens |-> target.input_tokens + source.input_tokens,
     output_tokens |-> target.output_tokens + source.output_tokens,
     cache_read_tokens |-> target.cache_read_tokens + source.cache_read_tokens,
     cache_write_tokens |-> target.cache_write_tokens + source.cache_write_tokens]

\* _DailyAcc() / _ModelAcc() / _ProjectAcc()
NewAcc ==
    [session_count |-> 0, message_count |-> 0, total_minutes |-> 0,
     tokens |-> EmptyTokens]

\* fnmatch.fnmatch(name, pat) on POSIX, for patterns built from literal
\* characters, "*" and "?"
RECURSIVE FnMatch(_, _)
FnMatch(name, pat) ==
    IF pat = <<>> THEN name = <<>>
    ELSE IF Head(pat) = "*"
         THEN \/ FnMatch(name, Tail(pat))
              \/ name # <<>> /\ FnMatch(Tail(name), pat)
    ELSE IF name = <<>> THEN FALSE
    ELSE /\ (Head(pat) = "?" \/ Head(pat) = Head(name))
         /\ FnMatch(Tail(name), Tail(pat))

\* one entry of privacy.exclude_date_ranges takes effect when it has two
\* elements and both parse (date.fromisoformat raises ValueError otherwise)
RangeApplies(dr) == Len(dr) = 2 /\ dr[1].valid /\ dr[2].valid

InRange(dr, s) == dr[1].day <= DateOf(s.start_time) /\ DateOf(s.start_time) <= dr[2].day

RECURSIVE FilterDateRanges(_, _)
FilterDateRanges(filtered, ranges) ==
    IF ranges = <<>> THEN filtered
    ELSE FilterDateRanges(
             IF RangeApplies(Head(ranges))
             THEN SelectSeq(filtered, LAMBDA s : ~InRange(Head(ranges), s))
             ELSE filtered,
             Tail(ranges))

\* an exclusion that compares the pattern with the name, character by
\* character
ProjectExcludedLiteral(s, cfg) ==
    \E i \in 1..Len(cfg.privacy.exclude_projects) :
        Chars(s.project) = Chars(cfg.privacy.exclude_projects[i])

ProjectExcluded(s, cfg) ==
    \E i \in 1..Len(cfg.privacy.exclude_projects) :
        FnMatch(Chars(s.project), Chars(cfg.privacy.exclude_projects[i]))

\* the three filters with a cutoff that drops the session starting at it
FilterSessionsAfterCutoff(ss, cfg, clock) ==
    LET cutoff == clock - 24 * cfg.default_days
        f1 == SelectSeq(ss, LAMBDA s : s.start_time > cutoff)
        f2 == FilterDateRanges(f1, cfg.privacy.exclude_date_ranges)
    IN IF cfg.privacy.exclude_projects # <<>>
       THEN SelectSeq(f2, LAMBDA s : ~ProjectExcluded(s, cfg))
       ELSE f2

\* the three filters at the head of aggregate
FilterSessions(ss, cfg, clock) ==
    LET cutoff == clock - 24 * cfg.default_days
        f1 == SelectSeq(ss, LAMBDA s : s.start_time >= cutoff)
        f2 == FilterDateRanges(f1, cfg.privacy.exclude_date_ranges)
    IN IF cfg.privacy.exclude_projects # <<>>
       THEN SelectSeq(f2, LAMBDA s : ~ProjectExcluded(s, cfg))
       ELSE f2

\* the accumulators before the loop over the filtered sessions
FoldInit ==
    [daily_map |-> EmptyDict, model_map |-> EmptyDict, project_map |-> EmptyDict,
     hour_counts |-> EmptyDict, agents_seen |-> {}, longest_minutes |-> 0,
     total_tokens |-> EmptyTokens, total_messages |-> 0]

\* the accumulator update with the tokens of the session replacing the
\* accumulated ones
BumpLastTokens(acc, s) ==
    [session_count |-> acc.session_count + 1,
     message_count |-> acc.message_count + s.message_count,
     total_minutes |-> acc.total_minutes + DurationMinutes(s),
     tokens |-> s.tokens]

\* acc.session_count += 1; acc.message_count += ...; acc.total_minutes += dur;
\* _add_tokens(acc.tokens, s.tokens)
Bump(acc, s) ==
    [session_count |-> acc.session_count + 1,
     message_count |-> acc.message_count + s.message_count,
     total_minutes |-> acc.total_minutes + DurationMinutes(s),
     tokens |-> AddTokens(acc.tokens, s.tokens)]

\* one iteration of the loop with the duration of the session taken as the
\* longest so far
FoldStepLastLongest(a, s) ==
    LET d == DateOf(s.start_time)
        key == <<s.project, s.agent>>
        h == HourOf(s.start_time)
    IN [daily_map |-> DictPut(a.daily_map, d, Bump(DictGet(a.daily_map, d, NewAcc), s)),
        model_map |-> DictPut(a.model_map, s.model,
                              Bump(DictGet(a.model_map, s.model, NewAcc), s)),
        project_map |-> DictPut(a.project_map, key,
                                Bump(DictGet(a.project_map, key, NewAcc), s)),
        hour_counts |-> DictPut(a.hour_counts, h, DictGet(a.hour_counts, h, 0) + 1),
        agents_seen |-> a.agents_seen \cup {s.agent},
        longest_minutes |-> DurationMinutes(s),
        total_tokens |-> AddTokens(a.total_tokens, s.tokens),
        total_messages |-> a.total_messages + s.message_count]

\* one iteration of the loop  for s in filtered
FoldStep(a, s) ==
    LET d == DateOf(s.start_time)
        key == <<s.project, s.agent>>
        h == HourOf(s.start_time)
    IN [daily_map |-> DictPut(a.daily_map, d, Bump(DictGet(a.daily_map, d, NewAcc), s)),
        model_map |-> DictPut(a.model_map, s.model,
                              Bump(DictGet(a.model_map, s.model, NewAcc), s)),
        project_map |-> DictPut(a.project_map, key,
                                Bump(DictGet(a.project_map, key, NewAcc), s)),
        hour_counts |-> DictPut(a.hour_counts, h, DictGet(a.hour_counts, h, 0) + 1),
        agents_seen |-> a.agents_seen \cup {s.agent},
        longest_minutes |-> IF DurationMinutes(s) > a.longest_minutes
                            THEN DurationMinutes(s) ELSE a.longest_minutes,
        total_tokens |-> AddTokens(a.total_tokens, s.tokens),
        total_messages |-> a.total_messages + s.message_count]

RECURSIVE Fold(_, _)
Fold(a, filtered) ==
    IF filtered = <<>> THEN a ELSE Fold(FoldStep(a, Head(filtered)), Tail(filtered))

RECURSIVE SumDurations(_)
SumDurations(filtered) ==
    IF filtered = <<>> THEN 0
    ELSE DurationMinutes(Head(filtered)) + SumDurations(Tail(filtered))

\* aggregate(sessions, config), called when the clock reads clock
Aggregate(ss, cfg, clock) ==
    LET filtered == FilterSessions(ss, cfg, clock)
        a == Fold(FoldInit, filtered)
        hk == a.hour_counts.keys
        mk == a.model_map.keys
        dk == a.daily_map.keys
        pk == a.project_map.keys
        peak_hour == MaxFirst([i \in 1..Len(hk) |-> <<a.hour_counts.val[hk[i]], hk[i]>>])
        favorite == MaxFirst([i \in 1..Len(mk) |->
                                 <<a.model_map.val[mk[i]].session_count, mk[i]>>])
        daily == Sorted([i \in 1..Len(dk) |->
                     <<dk[i],
                       [date |-> dk[i],
                        session_count |-> a.daily_map.val[dk[i]].session_count,
                        message_count |-> a.daily_map.val[dk[i]].message_count,
                        total_minutes |-> a.daily_map.val[dk[i]].total_minutes,
                        tokens |-> a.daily_map.val[dk[i]].tokens]>>], FALSE)
        models == Sorted([i \in 1..Len(mk) |->
                     <<a.model_map.val[mk[i]].session_count,
                       [model |-> mk[i],
                        session_count |-> a.model_map.val[mk[i]].session_count,
                        message_count |-> a.model_map.val[mk[i]].message_count,
                        total_minutes |-> a.model_map.val[mk[i]].total_minutes,
                        tokens |-> a.model_map.val[mk[i]].tokens]>>], TRUE)
        projects == Sorted([i \in 1..Len(pk) |->
                     <<a.project_map.val[pk[i]].total_minutes,
                       [project |-> pk[i][1],
                        agent |-> pk[i][2],
                        session_count |-> a.project_map.val[pk[i]].session_count,
                        total_minutes |-> a.project_map.val[pk[i]].total_minutes,
                        tokens |-> a.project_map.val[pk[i]].tokens]>>], TRUE)
    IN IF filtered = <<>> THEN DefaultStats(cfg.default_days, clock)
       ELSE [DefaultStats(cfg.default_days, clock) EXCEPT
                !.total_sessions = Len(filtered),
                !.total_messages = a.total_messages,
                !.total_minutes = SumDurations(filtered),
                !.total_tokens = a.total_tokens,
                !.active_agents = SortedAgents(a.agents_seen),
                !.favorite_model = favorite,
                !.peak_hour = peak_hour,
                !.longest_session_minutes = a.longest_minutes,
                !.daily = daily,
                !.models = models,
                !.projects = projects]

----------------------------------------------------------------------------
(* sanitizer.py *)

\* the placeholder names without the synthetic marker
PlaceholderUnknownOnly == {"unknown"}

PlaceholderModels == {"unknown", "<synthetic>"}

\* _PATH_PATTERN.search(cs): two or more consecutive "/segment" components,
\* each segment one or more characters of [a-zA-Z0-9._-]
PathPatternSearch(cs) ==
    \E i \in 1..Len(cs) : \E k \in (i + 2)..(Len(cs) - 1) :
        /\ cs[i] = "/"
        /\ cs[k] = "/"
        /\ \A j \in (i + 1)..(k - 1) : cs[j] \in PathSegmentChars
        /\ cs[k + 1] \in PathSegmentChars

\* path_blocklist without its first entry _HOME_DIR
PathBlocklistNoHome ==
    (IF Chars(HOME_DIR) # <<"/", "h", "o", "m", "e", "/">> \o Chars(USERNAME)
     THEN << <<"/", "h", "o", "m", "e", "/">> \o Chars(USERNAME) >>
     ELSE <<>>)
        \o << <<"/", "U", "s", "e", "r", "s", "/">> \o Chars(USERNAME) >>

\* path_blocklist of _validate_no_pii
PathBlocklist ==
    <<Chars(HOME_DIR)>>
        \o (IF Chars(HOME_DIR) # <<"/", "h", "o", "m", "e", "/">> \o Chars(USERNAME)
            THEN << <<"/", "h", "o", "m", "e", "/">> \o Chars(USERNAME) >>
            ELSE <<>>)
        \o << <<"/", "U", "s", "e", "r", "s", "/">> \o Chars(USERNAME) >>

\* for blocked in path_blocklist: if blocked in json_str
PathLeak(js) ==
    \E b \in 1..Len(PathBlocklist) : Contains(js, PathBlocklist[b])

\* the username search as a plain substring test
UsernameSearchSubstring(js) == Contains(js, Chars(USERNAME))

\* re.compile(rf"(?<![a-zA-Z]){re.escape(_USERNAME)}(?![a-zA-Z])").search(js)
UsernameSearch(js) ==
    \E i \in 1..Len(js) :
        /\ OccursAt(js, Chars(USERNAME), i)
        /\ (i = 1 \/ js[i - 1] \notin Letters)
        /\ (i + Len(Chars(USERNAME)) > Len(js)
              \/ js[i + Len(Chars(USERNAME))] \notin Letters)

\* if len(_USERNAME) >= 3: if pattern.search(json_str)
UsernameLeak(js) == Len(Chars(USERNAME)) >= 3 /\ UsernameSearch(js)

\* for p in stats.projects: if _PATH_PATTERN.search(p.project)
ProjectLeak(st) ==
    \E i \in 1..Len(st.projects) : PathPatternSearch(Chars(st.projects[i].project))

\* _validate_no_pii(stats): the ValueError it raises, "none" when it returns
ValidateNoPii(st) ==
    LET js == DumpJson(st, FALSE)
    IN IF PathLeak(js) THEN "path"
       ELSE IF UsernameLeak(js) THEN "username"
       ELSE IF ProjectLeak(st) THEN "project"
       ELSE "none"

\* sanitize that leaves the project breakdown in the copy it validates
SanitizeKeepProjects(st, cfg) ==
    LET copy == [st EXCEPT
                    !.models = SelectSeq(@, LAMBDA m : m.model \notin PlaceholderModels)]
    IN [data |-> copy, error |-> ValidateNoPii(copy)]

\* sanitize that strips the project breakdown only when
\* privacy.anonymize_projects is set
SanitizeStripIfAnonymize(st, cfg) ==
    LET stripped == IF cfg.privacy.anonymize_projects
                    THEN [st EXCEPT !.projects = <<>>] ELSE st
        copy == [stripped EXCEPT
                    !.models = SelectSeq(@, LAMBDA m : m.model \notin PlaceholderModels)]
    IN [data |-> copy, error |-> ValidateNoPii(copy)]

\* sanitize(stats, config): the copy it validates and the outcome
Sanitize(st, cfg) ==
    LET stripped == [st EXCEPT !.projects = <<>>]
        copy == [stripped EXCEPT
                    !.models = SelectSeq(@, LAMBDA m : m.model \notin PlaceholderModels)]
    IN [data |-> copy, error |-> ValidateNoPii(copy)]

----------------------------------------------------------------------------
(* config.py *)

\* PrivacyConfig()
DefaultPrivacy ==
    [exclude_projects |-> <<>>, exclude_date_ranges |-> <<>>, anonymize_projects |-> TRUE]

\* the values of a configuration file that was never written: Config()
DefaultFile ==
    [default_days |-> 30, token |-> "", gist_id |-> "", privacy |-> DefaultPrivacy]

\* load_config(): the file's values, then the environment variables.  An
\* unset variable is "" (None for VIBE_CLOCK_DAYS).
LoadConfig(file, env) ==
    [default_days |-> IF env.VIBE_CLOCK_DAYS # None
                      THEN env.VIBE_CLOCK_DAYS[1] ELSE file.default_days,
     github |-> [token |-> IF file.token = "" /\ env.GITHUB_TOKEN # ""
                           THEN env.GITHUB_TOKEN ELSE file.token,
                 gist_id |-> IF env.VIBE_CLOCK_GIST_ID # ""
                             THEN env.VIBE_CLOCK_GIST_ID ELSE file.gist_id],
     privacy |-> file.privacy]

\* save_config(config): every field of the in-memory Config is written
SaveConfig(cfg) ==
    [default_days |-> cfg.default_days,
     token |-> cfg.github.token,
     gist_id |-> cfg.github.gist_id,
     privacy |-> cfg.privacy]

----------------------------------------------------------------------------
(* Inputs of the sanitizer *)

\* (username, home directory) of the machine
Machines ==
    {[user |-> "dex", home |-> "/home/dex"],
     [user |-> "de", home |-> "/home/de"],
     [user |-> "de", home |-> "/data/de"]}

ModelNames == {"unknown", "<synthetic>", "gpt-5", "dex", "dex_1", "/home/de/llm"}

ProjectNames == {"safe-name", "/home/de/proj"}

\* sessions that differ in the fields that reach the serialized output as text
SanSessions ==
    {[session_id |-> "s1",
      agent |-> IF m = "gpt-5" THEN "codex" ELSE "claude_code",
      start_time |-> 250,
      end_time |-> Some(251),
      model |-> m,
      project |-> p,
      message_count |-> 2,
      tokens |-> [EmptyTokens EXCEPT !.input_tokens = 100, !.output_tokens = 50]]
        : m \in ModelNames, p \in ProjectNames}

SanConfigs ==
    {[default_days |-> 30,
      github |-> [token |-> "tok", gist_id |-> ""],
      privacy |-> [DefaultPrivacy EXCEPT !.anonymize_projects = a]]
        : a \in BOOLEAN}

----------------------------------------------------------------------------
(* cli.py: the push command *)

\* the lists of sessions the collectors can hand to push
PushSessions ==
    {[session_id |-> "s1",
      agent |-> IF m = "gpt-5" THEN "codex" ELSE "claude_code",
      start_time |-> 250,
      end_time |-> Some(251),
      model |-> m,
      project |-> "/home/de/proj",
      message_count |-> 2,
      tokens |-> [EmptyTokens EXCEPT !.input_tokens = 100, !.output_tokens = 50]]
        : m \in {"gpt-5", "dex", "/home/de/llm"}}

\* all lists over S of length at most n
SeqsUpTo(S, n) == UNION {[1..k -> S] : k \in 0..n}

\* the state of a process that has not started the command yet
PushFresh ==
    /\ config = LoadConfig(DefaultFile, [GITHUB_TOKEN |-> "", VIBE_CLOCK_GIST_ID |-> "",
                                         VIBE_CLOCK_DAYS |-> None])
    /\ sessions = <<>>
    /\ stats = DefaultStats(0, 0)
    /\ data = DefaultStats(0, 0)
    /\ json_str = <<>>
    /\ error = "none"
    /\ san_pc = "call"
    /\ args = [dry_run |-> FALSE, days |-> 0]
    /\ requests = <<>>
    /\ response = [status_code |-> 0, id |-> ""]
    /\ saves = 0

Init ==
    /\ \E mc \in Machines : USERNAME = mc.user /\ HOME_DIR = mc.home
    /\ now = 264
    /\ cfg_file \in {[DefaultFile EXCEPT !.token = t] : t \in {"", "tok"}}
    /\ environ \in {[GITHUB_TOKEN |-> t, VIBE_CLOCK_GIST_ID |-> "", VIBE_CLOCK_DAYS |-> d]
                      : t \in {"", "envtok"}, d \in {None, Some(7)}}
    /\ PushFresh
    /\ push_pc = "idle"
    /\ runs = 0
    /\ CollectorsIdle

\* a new process starts the push command: config = load_config();
\* if days: config.default_days = days; if not token: sys.exit(1)
PushLoadConfig ==
    /\ push_pc \in {"idle", "exit0", "exit1", "raised"}
    /\ runs < MaxRuns
    /\ runs' = runs + 1
    /\ \E dry \in BOOLEAN, days \in {0, 1} :
          /\ args' = [dry_run |-> dry, days |-> days]
          /\ config' = [LoadConfig(cfg_file, environ) EXCEPT
                           !.default_days = IF days # 0 THEN days ELSE @]
    /\ push_pc' = IF config'.github.token = "" THEN "exit1" ELSE "collect"
    /\ sessions' = <<>>
    /\ stats' = DefaultStats(0, 0)
    /\ data' = DefaultStats(0, 0)
    /\ json_str' = <<>>
    /\ error' = "none"
    /\ san_pc' = "call"
    /\ requests' = <<>>
    /\ response' = [status_code |-> 0, id |-> ""]
    /\ saves' = 0
    /\ UNCHANGED <<USERNAME, HOME_DIR, now, cfg_file, environ, collectorVars>>

\* all_sessions.extend(c.collect()) for the collectors;
\* stats = aggregate(all_sessions, config)
PushAggregate ==
    /\ push_pc = "collect"
    /\ sessions' \in SeqsUpTo(PushSessions, MaxPushSessions)
    /\ stats' = Aggregate(sessions', config, now)
    /\ push_pc' = "sanitize"
    /\ UNCHANGED <<USERNAME, HOME_DIR, now, config, data, json_str, error, san_pc,
                   cfg_file, environ, args, requests, response, saves, runs,
                   collectorVars>>

\* PushSanitize with a detected leak downgraded to a warning: the command
\* goes on to send
PushSanitizeWarnOnly ==
    /\ push_pc = "sanitize"
    /\ LET r == Sanitize(stats, config)
       IN /\ data' = r.data
          /\ json_str' = DumpJson(r.data, FALSE)
          /\ error' = r.error
          /\ san_pc' = IF r.error = "none" THEN "returned" ELSE "raised"
          /\ push_pc' = "send"
    /\ UNCHANGED <<USERNAME, HOME_DIR, now, config, sessions, stats,
                   cfg_file, environ, args, requests, response, saves, runs,
                   collectorVars>>

\* safe_stats = sanitize(stats, config); the ValueError of a detected leak
\* is not caught and ends the command
PushSanitize ==
    /\ push_pc = "sanitize"
    /\ LET r == Sanitize(stats, config)
       IN /\ data' = r.data
          /\ json_str' = DumpJson(r.data, FALSE)
          /\ error' = r.error
          /\ san_pc' = IF r.error = "none" THEN "returned" ELSE "raised"
          /\ push_pc' = IF r.error = "none" THEN "send" ELSE "raised"
    /\ UNCHANGED <<USERNAME, HOME_DIR, now, config, sessions, stats,
                   cfg_file, environ, args, requests, response, saves, runs,
                   collectorVars>>

\* if dry_run: console.print(preview(safe_stats)); return
PushDryRun ==
    /\ push_pc = "send"
    /\ args.dry_run
    /\ push_pc' = "exit0"
    /\ UNCHANGED <<sanVars, cfg_file, environ, args, requests, response, saves, runs,
                   collectorVars>>

\* the payload is always sent as a new gist
PushSendAlwaysPost ==
    /\ push_pc = "send"
    /\ ~args.dry_run
    /\ requests' = Append(requests,
                          [method |-> "POST",
                           gist_id |-> "",
                           content |-> DumpJson(data, TRUE)])
    /\ push_pc' = "await"
    /\ UNCHANGED <<sanVars, cfg_file, environ, args, response, saves, runs, collectorVars>>

\* payload_json = safe_stats.model_dump_json(indent=2);
\* client.patch(.../gists/{gist_id}) if gist_id else client.post(.../gists)
PushSend ==
    /\ push_pc = "send"
    /\ ~args.dry_run
    /\ requests' = Append(requests,
                          [method |-> IF config.github.gist_id # "" THEN "PATCH" ELSE "POST",
                           gist_id |-> config.github.gist_id,
                           content |-> DumpJson(data, TRUE)])
    /\ push_pc' = "await"
    /\ UNCHANGED <<sanVars, cfg_file, environ, args, response, saves, runs, collectorVars>>

\* the request fails in transport: httpx raises and the command ends
PushTransportError ==
    /\ push_pc = "await"
    /\ push_pc' = "raised"
    /\ UNCHANGED <<sanVars, cfg_file, environ, args, requests, response, saves, runs,
                   collectorVars>>

\* the response arrives: any status but 200 / 201 is an error exit; a
\* created gist's id is stored in the configuration and saved
PushResponse ==
    /\ push_pc = "await"
    /\ \E st \in {200, 201, 401} :
          /\ response' = [status_code |-> st,
                          id |-> IF config.github.gist_id # ""
                                 THEN config.github.gist_id ELSE "g1"]
          /\ IF st \notin {200, 201}
             THEN /\ push_pc' = "exit1"
                  /\ UNCHANGED <<config, cfg_file, saves>>
             ELSE /\ push_pc' = "exit0"
                  /\ IF config.github.gist_id = ""
                     THEN /\ config' = [config EXCEPT !.github.gist_id = response'.id]
                          /\ cfg_file' = SaveConfig(config')
                          /\ saves' = saves + 1
                     ELSE UNCHANGED <<config, cfg_file, saves>>
    /\ UNCHANGED <<USERNAME, HOME_DIR, now, sessions, stats, data, json_str, error,
                   san_pc, environ, args, requests, runs, collectorVars>>

Next ==
    \/ PushLoadConfig
    \/ PushAggregate
    \/ PushSanitize
    \/ PushDryRun
    \/ PushSend
    \/ PushTransportError
    \/ PushResponse

Spec == Init /\ [][Next]_vars

----------------------------------------------------------------------------
(* sanitize applied to aggregated stats *)

InitSanitize ==
    /\ \E mc \in Machines : USERNAME = mc.user /\ HOME_DIR = mc.home
    /\ now = 264
    /\ config \in SanConfigs
    /\ sessions \in SeqsUpTo(SanSessions, MaxSessions)
    /\ stats = Aggregate(sessions, config, now)
    /\ data = DefaultStats(0, 0)
    /\ json_str = <<>>
    /\ error = "none"
    /\ san_pc = "call"
    /\ cfg_file = DefaultFile
    /\ environ = [GITHUB_TOKEN |-> "", VIBE_CLOCK_GIST_ID |-> "", VIBE_CLOCK_DAYS |-> None]
    /\ args = [dry_run |-> FALSE, days |-> 0]
    /\ push_pc = "idle"
    /\ requests = <<>>
    /\ response = [status_code |-> 0, id |-> ""]
    /\ saves = 0
    /\ runs = 0
    /\ CollectorsIdle

\* safe_stats = sanitize(stats, config)
SanitizeCall ==
    /\ san_pc = "call"
    /\ LET r == Sanitize(stats, config)
       IN /\ data' = r.data
          /\ json_str' = DumpJson(r.data, FALSE)
          /\ error' = r.error
          /\ san_pc' = IF r.error = "none" THEN "returned" ELSE "raised"
    /\ UNCHANGED <<USERNAME, HOME_DIR, now, config, sessions, stats, pushVars, collectorVars>>

NextSanitize == SanitizeCall

SpecSanitize == InitSanitize /\ [][NextSanitize]_vars

----------------------------------------------------------------------------
(* aggregator.py: one call of aggregate *)

\* one element of an entry of privacy.exclude_date_ranges: whether
\* date.fromisoformat accepts the string, and the day it names
DateField(valid, day) == [valid |-> valid, day |-> day]

\* the exclude_date_ranges lists: none; day 5 alone; an entry whose first
\* date does not parse, then day 5; an entry with one element, then days 5-6
AggDateRanges ==
    {<<>>,
     <<<<DateField(TRUE, 5), DateField(TRUE, 5)>>>>,
     <<<<DateField(FALSE, 0), DateField(TRUE, 6)>>, <<DateField(TRUE, 5), DateField(TRUE, 5)>>>>,
     <<<<DateField(TRUE, 4)>>, <<DateField(TRUE, 5), DateField(TRUE, 6)>>>>}

\* configurations with a window of 7 days: the cutoff is hour 96 when the
\* clock reads 264
AggConfigs ==
    {[default_days |-> 7,
      github |-> [token |-> "tok", gist_id |-> ""],
      privacy |-> [DefaultPrivacy EXCEPT !.exclude_date_ranges = r,
                                         !.exclude_projects = x]]
        : r \in AggDateRanges, x \in {<<>>, <<"safe*">>}}

\* sessions starting one hour before the cutoff (day 3, 23h), at the cutoff
\* (day 4, 0h), on day 5 at 10h and on day 6 at 10h
AggSessions ==
    {[session_id |-> "s1",
      agent |-> IF m = "gpt-5" THEN "codex" ELSE "claude_code",
      start_time |-> t,
      end_time |-> Some(t + (IF m = "gpt-5" THEN 1 ELSE 2)),
      model |-> m,
      project |-> p,
      message_count |-> IF m = "gpt-5" THEN 2 ELSE 3,
      tokens |-> IF m = "gpt-5"
                 THEN [EmptyTokens EXCEPT !.input_tokens = 100, !.output_tokens = 50]
                 ELSE [input_tokens |-> 10, output_tokens |-> 5,
                       cache_read_tokens |-> 20, cache_write_tokens |-> 1]]
        : t \in {95, 96, 130, 154}, m \in {"gpt-5", "dex"}, p \in ProjectNames}

InitAggregate ==
    /\ USERNAME = "dex" /\ HOME_DIR = "/home/dex"
    /\ now = 264
    /\ config \in AggConfigs
    /\ sessions \in SeqsUpTo(AggSessions, MaxSessions)
    /\ stats = DefaultStats(0, 0)
    /\ data = DefaultStats(0, 0)
    /\ json_str = <<>>
    /\ error = "none"
    /\ san_pc = "call"
    /\ cfg_file = DefaultFile
    /\ environ = [GITHUB_TOKEN |-> "", VIBE_CLOCK_GIST_ID |-> "", VIBE_CLOCK_DAYS |-> None]
    /\ args = [dry_run |-> FALSE, days |-> 0]
    /\ push_pc = "idle"
    /\ requests = <<>>
    /\ response = [status_code |-> 0, id |-> ""]
    /\ saves = 0
    /\ runs = 0
    /\ cc_files = <<>> /\ cc_file = 0 /\ cc_line = 0 /\ cc_seen = <<>>
    /\ cc_sessions = EmptyDict /\ cc_result = <<>> /\ cc_pc = "idle"
    /\ cx_files = <<>> /\ cx_file = 0
    /\ cx_failed = {} /\ cx_result = <<>> /\ cx_pc = "idle"
    /\ oc_ses = <<>> /\ oc_msgs = <<>> /\ oc_file = 0 /\ oc_result = <<>> /\ oc_pc = "idle"
    /\ gm_files = <<>> /\ gm_tmp = FALSE /\ gm_result = <<>> /\ gm_pc = "idle"
    /\ agg_pc = "call" /\ agg_first = <<>>
    /\ ToolsIdle

\* stats = aggregate(sessions, config)
AggregateCall ==
    /\ agg_pc = "call"
    /\ stats' = Aggregate(sessions, config, now)
    /\ agg_pc' = "returned"
    /\ UNCHANGED <<USERNAME, HOME_DIR, now, config, sessions, data, json_str, error,
                   san_pc, pushVars, claudeVars, codexVars, openVars, geminiVars,
                   agg_first, toolVars>>

NextAggregate == AggregateCall

SpecAggregate == InitAggregate /\ [][NextAggregate]_vars

----------------------------------------------------------------------------
(* aggregator.py: two aggregate calls on the same sessions and config *)

\* the clock readings of the second call, given that of the first
LaterClocks(clock) == {clock, clock + 1, clock + 24}

\* a first call whose running total is the first session's own TokenUsage
\* object, so that _add_tokens writes into the input
AggregateFirstAliasTokens ==
    /\ agg_pc = "call"
    /\ agg_first' = Some([stats |-> Aggregate(sessions, config, now),
                          sessions |-> sessions, config |-> config])
    /\ sessions' = IF sessions = <<>> THEN sessions
                   ELSE [sessions EXCEPT
                            ![1].tokens = AddTokens(Aggregate(sessions, config, now).total_tokens,
                                                    sessions[1].tokens)]
    /\ agg_pc' = "between"
    /\ UNCHANGED <<USERNAME, HOME_DIR, now, config, stats, data, json_str, error,
                   san_pc, pushVars, claudeVars, codexVars, openVars, geminiVars, toolVars>>

\* first = aggregate(sessions, config); the arguments as they were at the
\* call are kept next to the result. The accumulators _add_tokens writes to
\* are objects made inside aggregate, so the arguments stay as they are.
AggregateFirst ==
    /\ agg_pc = "call"
    /\ agg_first' = Some([stats |-> Aggregate(sessions, config, now),
                          sessions |-> sessions, config |-> config])
    /\ agg_pc' = "between"
    /\ UNCHANGED <<USERNAME, HOME_DIR, now, config, sessions, stats, data, json_str,
                   error, san_pc, pushVars, claudeVars, codexVars, openVars, geminiVars, toolVars>>

\* time passes between the two calls
ClockAdvances ==
    /\ agg_pc = "between"
    /\ now' \in LaterClocks(now)
    /\ agg_pc' = "call2"
    /\ UNCHANGED <<USERNAME, HOME_DIR, config, sessions, stats, data, json_str, error,
                   san_pc, pushVars, claudeVars, codexVars, openVars, geminiVars,
                   agg_first, toolVars>>

\* stats = aggregate(sessions, config), the second call
AggregateSecond ==
    /\ agg_pc = "call2"
    /\ stats' = Aggregate(sessions, config, now)
    /\ agg_pc' = "returned2"
    /\ UNCHANGED <<USERNAME, HOME_DIR, now, config, sessions, data, json_str, error,
                   san_pc, pushVars, claudeVars, codexVars, openVars, geminiVars,
                   agg_first, toolVars>>

NextAggregateTwice == AggregateFirst \/ ClockAdvances \/ AggregateSecond

SpecAggregateTwice == InitAggregate /\ [][NextAggregateTwice]_vars

----------------------------------------------------------------------------
(* Log files *)

\* a "timestamp" field: absent, a string datetime.fromisoformat rejects, or
\* the time t
TsAbsent == [present |-> FALSE, valid |-> FALSE, t |-> 0]

TsInvalid == [present |-> TRUE, valid |-> FALSE, t |-> 0]

Ts(t) == [present |-> TRUE, valid |-> TRUE, t |-> t]

Usage(i, o, r, w) ==
    [input_tokens |-> i, output_tokens |-> o, cache_read_tokens |-> r, cache_write_tokens |-> w]

RECURSIVE SumSizes(_, _)
SumSizes(sizes, k) == IF k = 0 THEN 0 ELSE sizes[k] + SumSizes(sizes, k - 1)

\* the lines flat cut into Len(sizes) files of the given sizes
Split(flat, sizes) ==
    [i \in 1..Len(sizes) |->
        SubSeq(flat, SumSizes(sizes, i - 1) + 1, SumSizes(sizes, i))]

\* every way to put at most MaxRecords lines of Lines into at most MaxFiles
\* files
FileSets(Lines) ==
    UNION {UNION {{Split(flat, sizes) :
                      sizes \in {z \in [1..k -> 0..Len(flat)] : SumSizes(z, k) = Len(flat)}}
                    : k \in 0..MaxFiles}
             : flat \in SeqsUpTo(Lines, MaxRecords)}

----------------------------------------------------------------------------
(* collectors/claude_code.py *)

\* the lines a projects/**/*.jsonl file can hold.  kind "garbage" is a line
\* json.loads rejects, "nonobject" valid JSON that is not an object (such as
\* [] or 1), "object" a record; an absent sessionId is "", an absent
\* message.model is "unknown", an absent usage count is 0.
CcLine(kind, sid, type, ts, model, usage) ==
    [kind |-> kind, sessionId |-> sid, type |-> type, timestamp |-> ts,
     model |-> model, usage |-> usage]

ClaudeLines ==
    {CcLine("garbage", "", "", TsAbsent, "unknown", Usage(0, 0, 0, 0)),
     CcLine("nonobject", "", "", TsAbsent, "unknown", Usage(0, 0, 0, 0)),
     CcLine("object", "s1", "assistant", Ts(1), "m1", Usage(100, 50, 200, 30)),
     CcLine("object", "s1", "assistant", Ts(3), "m2", Usage(80, 40, 150, 20)),
     CcLine("object", "s1", "user", Ts(0), "unknown", Usage(0, 0, 0, 0)),
     CcLine("object", "s2", "assistant", Ts(2), "unknown", Usage(5, 0, 0, 0)),
     CcLine("object", "s1", "assistant", TsInvalid, "m1", Usage(7, 7, 7, 7))}

\* jsonl_file.parent.name of the i-th file
ProjectSlug(i) == <<"proj-a", "proj-b", "proj-c", "proj-d">>[i]

\* _SessionAcc(session_id, project)
NewSessionAcc(session_id, project) ==
    [session_id |-> session_id, project |-> project, message_count |-> 0,
     timestamps |-> <<>>, tokens |-> EmptyTokens, models |-> EmptyDict]

\* the accumulator after one more assistant record with timestamp ts
Accumulate(acc, record) ==
    [acc EXCEPT
        !.message_count = @ + 1,
        !.timestamps = Append(@, record.timestamp.t),
        !.tokens = AddTokens(@, record.usage),
        !.models = IF record.model # "unknown"
                   THEN DictPut(@, record.model, DictGet(@, record.model, 0) + 1)
                   ELSE @]

\* _process_record with the accumulator created anew for every record
ClaudeProcessRecordReset(record, project_slug, sess) ==
    IF record.sessionId = "" THEN sess
    ELSE IF record.type # "assistant" THEN sess
    ELSE IF ~record.timestamp.present THEN sess
    ELSE IF ~record.timestamp.valid THEN sess
    ELSE DictPut(sess, record.sessionId,
                 Accumulate(NewSessionAcc(record.sessionId, project_slug), record))

\* _process_record(record, project_slug, sessions): the dict afterwards
ClaudeProcessRecord(record, project_slug, sess) ==
    IF record.sessionId = "" THEN sess
    ELSE IF record.type # "assistant" THEN sess
    ELSE IF ~record.timestamp.present THEN sess
    ELSE IF ~record.timestamp.valid THEN sess
    ELSE DictPut(sess, record.sessionId,
                 Accumulate(DictGet(sess, record.sessionId,
                                    NewSessionAcc(record.sessionId, project_slug)),
                            record))

\* the last of the most used models instead of the first
MostUsedModelLast(models) ==
    IF models.keys = <<>> THEN "unknown"
    ELSE LET n == Len(models.keys)
         IN MaxFirst([i \in 1..n |->
                        <<models.val[models.keys[n + 1 - i]], models.keys[n + 1 - i]>>])

\* max(models, key=models.get), "unknown" for an empty dict
MostUsedModel(models) ==
    IF models.keys = <<>> THEN "unknown"
    ELSE MaxFirst([i \in 1..Len(models.keys) |->
                      <<models.val[models.keys[i]], models.keys[i]>>])

\* to_session taking the first and the last timestamp of the list
ToSessionFirstLast(acc) ==
    [session_id |-> acc.session_id,
     agent |-> "claude_code",
     start_time |-> IF acc.timestamps # <<>> THEN acc.timestamps[1] ELSE now,
     end_time |-> IF acc.timestamps # <<>>
                  THEN Some(acc.timestamps[Len(acc.timestamps)]) ELSE None,
     model |-> MostUsedModel(acc.models),
     project |-> acc.project,
     message_count |-> acc.message_count,
     tokens |-> acc.tokens]

\* _SessionAcc.to_session().  An accumulator always holds a timestamp: it is
\* created by the record that appends the first one.
ToSession(acc) ==
    [session_id |-> acc.session_id,
     agent |-> "claude_code",
     start_time |-> IF acc.timestamps # <<>> THEN MinOf(acc.timestamps) ELSE now,
     end_time |-> IF acc.timestamps # <<>> THEN Some(MaxOf(acc.timestamps)) ELSE None,
     model |-> MostUsedModel(acc.models),
     project |-> acc.project,
     message_count |-> acc.message_count,
     tokens |-> acc.tokens]

\* everything outside the claude_code collector
ClaudeOnly ==
    /\ USERNAME = "dex" /\ HOME_DIR = "/home/dex" /\ now = 264
    /\ cfg_file = DefaultFile
    /\ environ = [GITHUB_TOKEN |-> "", VIBE_CLOCK_GIST_ID |-> "", VIBE_CLOCK_DAYS |-> None]
    /\ PushFresh
    /\ push_pc = "idle"
    /\ runs = 0

InitClaude ==
    /\ ClaudeOnly
    /\ cc_files \in FileSets(ClaudeLines)
    /\ cc_file = 1
    /\ cc_line = 0
    /\ cc_seen = <<>>
    /\ cc_sessions = EmptyDict
    /\ cc_result = <<>>
    /\ cc_pc = "read"
    /\ cx_files = <<>> /\ cx_file = 0
    /\ cx_failed = {} /\ cx_result = <<>> /\ cx_pc = "idle"
    /\ OthersIdle

\* one iteration of  for line in f:  a line json.loads rejects is skipped;
\* a line that is valid JSON but not an object makes record.get raise
\* AttributeError, which nothing in collect() catches
ClaudeReadLine ==
    /\ cc_pc = "read"
    /\ cc_file <= Len(cc_files)
    /\ cc_line < Len(cc_files[cc_file])
    /\ LET record == cc_files[cc_file][cc_line + 1]
       IN /\ cc_seen' = Append(cc_seen, record)
          /\ cc_line' = cc_line + 1
          /\ cc_pc' = IF record.kind = "nonobject" THEN "raised" ELSE "read"
          /\ cc_sessions' = IF record.kind = "object"
                            THEN ClaudeProcessRecord(record, ProjectSlug(cc_file), cc_sessions)
                            ELSE cc_sessions
    /\ UNCHANGED <<cc_files, cc_file, cc_result, sanVars, pushVars, codexVars,
                   openVars, geminiVars, aggVars, toolVars>>

\* the file is exhausted: on to the next file of rglob
ClaudeEndOfFile ==
    /\ cc_pc = "read"
    /\ cc_file <= Len(cc_files)
    /\ cc_line = Len(cc_files[cc_file])
    /\ cc_file' = cc_file + 1
    /\ cc_line' = 0
    /\ UNCHANGED <<cc_files, cc_seen, cc_sessions, cc_result, cc_pc,
                   sanVars, pushVars, codexVars,
                   openVars, geminiVars, aggVars, toolVars>>

\* open() or a read raises OSError: except OSError: continue
ClaudeOSError ==
    /\ cc_pc = "read"
    /\ cc_file <= Len(cc_files)
    /\ cc_line < Len(cc_files[cc_file])
    /\ cc_file' = cc_file + 1
    /\ cc_line' = 0
    /\ UNCHANGED <<cc_files, cc_seen, cc_sessions, cc_result, cc_pc,
                   sanVars, pushVars, codexVars,
                   openVars, geminiVars, aggVars, toolVars>>

\* return [acc.to_session() for acc in sessions.values()]
ClaudeReturn ==
    /\ cc_pc = "read"
    /\ cc_file > Len(cc_files)
    /\ cc_result' = [i \in 1..Len(cc_sessions.keys) |->
                        ToSession(cc_sessions.val[cc_sessions.keys[i]])]
    /\ cc_pc' = "returned"
    /\ UNCHANGED <<cc_files, cc_file, cc_line, cc_seen, cc_sessions,
                   sanVars, pushVars, codexVars,
                   openVars, geminiVars, aggVars, toolVars>>

NextClaude == ClaudeReadLine \/ ClaudeEndOfFile \/ ClaudeOSError \/ ClaudeReturn

SpecClaude == InitClaude /\ [][NextClaude]_vars

----------------------------------------------------------------------------
(* collectors/codex.py *)

\* the lines a sessions/**/rollout-*.jsonl file can hold.  kind is as for
\* claude_code; an absent payload.id or payload.cwd is None, an absent
\* payload.model, payload.type or payload.role is "", an absent or empty
\* info.last_token_usage is None.
CxLine(kind, type, ts, fields) ==
    [kind |-> kind, type |-> type, timestamp |-> ts,
     id |-> fields.id, cwd |-> fields.cwd, model |-> fields.model,
     evt_type |-> fields.evt_type, role |-> fields.role,
     last_token_usage |-> fields.last_token_usage]

\* a payload without any of the keys the collector reads
NoFields ==
    [id |-> None, cwd |-> None, model |-> "", evt_type |-> "", role |-> "",
     last_token_usage |-> None]

\* info.last_token_usage
LastUsage(i, o, c) == [input_tokens |-> i, output_tokens |-> o, cached_input_tokens |-> c]

CodexLines ==
    {CxLine("garbage", "", TsAbsent, NoFields),
     CxLine("nonobject", "", TsAbsent, NoFields),
     CxLine("object", "session_meta", TsAbsent,
            [NoFields EXCEPT !.id = Some("c1"), !.cwd = Some("/work/app")]),
     CxLine("object", "event_msg", Ts(3),
            [NoFields EXCEPT !.evt_type = "token_count",
                             !.last_token_usage = Some(LastUsage(500, 200, 100))]),
     CxLine("object", "event_msg", TsInvalid, [NoFields EXCEPT !.evt_type = "user_message"]),
     CxLine("object", "response_item", Ts(1), [NoFields EXCEPT !.role = "assistant"]),
     CxLine("object", "response_item", TsAbsent, [NoFields EXCEPT !.role = "user"])}

\* the locals of _parse_rollout before the first line
RolloutInit ==
    [session_id |-> None, project |-> "unknown", timestamps |-> <<>>,
     tokens |-> EmptyTokens, message_count |-> 0, models |-> EmptyDict,
     raised |-> FALSE]

\* the body of  for line in f:  with every response_item counted as a message
RolloutStepAnyRole(acc, record) ==
    IF record.kind = "garbage" THEN acc
    ELSE IF record.kind = "nonobject" THEN [acc EXCEPT !.raised = TRUE]
    ELSE
    LET timed == IF record.timestamp.present /\ record.timestamp.valid
                 THEN [acc EXCEPT !.timestamps = Append(@, record.timestamp.t)]
                 ELSE acc
    IN CASE record.type = "session_meta" ->
              [timed EXCEPT
                  !.session_id = IF record.id # None THEN record.id ELSE @,
                  !.project = IF record.cwd # None THEN record.cwd[1] ELSE @]
         [] record.type = "turn_context" ->
              IF record.model # ""
              THEN [timed EXCEPT !.models = DictPut(@, record.model,
                                                    DictGet(@, record.model, 0) + 1)]
              ELSE timed
         [] record.type = "event_msg" ->
              IF record.evt_type = "token_count"
              THEN IF record.last_token_usage # None
                   THEN [timed EXCEPT
                            !.tokens.input_tokens =
                                @ + record.last_token_usage[1].input_tokens,
                            !.tokens.output_tokens =
                                @ + record.last_token_usage[1].output_tokens,
                            !.tokens.cache_read_tokens =
                                @ + record.last_token_usage[1].cached_input_tokens]
                   ELSE timed
              ELSE IF record.evt_type = "user_message"
                   THEN [timed EXCEPT !.message_count = @ + 1]
                   ELSE timed
         [] record.type = "response_item" ->
              [timed EXCEPT !.message_count = @ + 1]
         [] OTHER -> timed

\* the body of  for line in f:  a line json.loads rejects is skipped; a line
\* that is valid JSON but not an object makes record.get raise
\* AttributeError, which neither _parse_rollout nor collect catches
RolloutStep(acc, record) ==
    IF record.kind = "garbage" THEN acc
    ELSE IF record.kind = "nonobject" THEN [acc EXCEPT !.raised = TRUE]
    ELSE
    LET timed == IF record.timestamp.present /\ record.timestamp.valid
                 THEN [acc EXCEPT !.timestamps = Append(@, record.timestamp.t)]
                 ELSE acc
    IN CASE record.type = "session_meta" ->
              [timed EXCEPT
                  !.session_id = IF record.id # None THEN record.id ELSE @,
                  !.project = IF record.cwd # None THEN record.cwd[1] ELSE @]
         [] record.type = "turn_context" ->
              IF record.model # ""
              THEN [timed EXCEPT !.models = DictPut(@, record.model,
                                                    DictGet(@, record.model, 0) + 1)]
              ELSE timed
         [] record.type = "event_msg" ->
              IF record.evt_type = "token_count"
              THEN IF record.last_token_usage # None
                   THEN [timed EXCEPT
                            !.tokens.input_tokens =
                                @ + record.last_token_usage[1].input_tokens,
                            !.tokens.output_tokens =
                                @ + record.last_token_usage[1].output_tokens,
                            !.tokens.cache_read_tokens =
                                @ + record.last_token_usage[1].cached_input_tokens]
                   ELSE timed
              ELSE IF record.evt_type = "user_message"
                   THEN [timed EXCEPT !.message_count = @ + 1]
                   ELSE timed
         [] record.type = "response_item" ->
              IF record.role = "assistant"
              THEN [timed EXCEPT !.message_count = @ + 1]
              ELSE timed
         [] OTHER -> timed

\* the locals of _parse_rollout after the loop over lines, or at the line
\* that raised
RECURSIVE RolloutFold(_, _)
RolloutFold(acc, lines) ==
    IF lines = <<>> \/ acc.raised THEN acc
    ELSE RolloutFold(RolloutStep(acc, Head(lines)), Tail(lines))

\* what _parse_rollout returns for the locals acc: None or a Session
RolloutSession(acc) ==
    IF acc.session_id = None \/ acc.timestamps = <<>> THEN None
    ELSE Some([session_id |-> acc.session_id[1],
               agent |-> "codex",
               start_time |-> MinOf(acc.timestamps),
               end_time |-> Some(MaxOf(acc.timestamps)),
               model |-> MostUsedModel(acc.models),
               project |-> acc.project,
               message_count |-> acc.message_count,
               tokens |-> acc.tokens])

InitCodex ==
    /\ ClaudeOnly
    /\ cc_files = <<>> /\ cc_file = 0 /\ cc_line = 0 /\ cc_seen = <<>>
    /\ cc_sessions = EmptyDict /\ cc_result = <<>> /\ cc_pc = "idle"
    /\ cx_files \in FileSets(CodexLines)
    /\ cx_file = 1
    /\ cx_failed = {}
    /\ cx_result = <<>>
    /\ cx_pc = "read"
    /\ OthersIdle

\* session = self._parse_rollout(jsonl_file) running to its return or to the
\* line that raises;  if session is not None: results.append(session)
CodexParseRollout ==
    /\ cx_pc = "read"
    /\ cx_file <= Len(cx_files)
    /\ LET acc == RolloutFold(RolloutInit, cx_files[cx_file])
       IN IF acc.raised
          THEN /\ cx_pc' = "raised"
               /\ UNCHANGED <<cx_file, cx_result>>
          ELSE /\ cx_result' = cx_result \o RolloutSession(acc)
               /\ cx_file' = cx_file + 1
               /\ UNCHANGED cx_pc
    /\ UNCHANGED <<cx_files, cx_failed, sanVars, pushVars, claudeVars,
                   openVars, geminiVars, aggVars, toolVars>>

\* open() or a read raises OSError: _parse_rollout returns None
CodexOSError ==
    /\ cx_pc = "read"
    /\ cx_file <= Len(cx_files)
    /\ cx_failed' = cx_failed \cup {cx_file}
    /\ cx_file' = cx_file + 1
    /\ UNCHANGED <<cx_files, cx_result, cx_pc, sanVars, pushVars, claudeVars,
                   openVars, geminiVars, aggVars, toolVars>>

\* return results
CodexReturn ==
    /\ cx_pc = "read"
    /\ cx_file > Len(cx_files)
    /\ cx_pc' = "returned"
    /\ UNCHANGED <<cx_files, cx_file, cx_failed, cx_result, sanVars, pushVars, claudeVars,
                   openVars, geminiVars, aggVars, toolVars>>

NextCodex == CodexParseRollout \/ CodexOSError \/ CodexReturn

SpecCodex == InitCodex /\ [][NextCodex]_vars

----------------------------------------------------------------------------
(* collectors/opencode.py *)

\* a Unix time in milliseconds is written as the hour of the model's clock
\* it lies in (Unix milliseconds of 2026 exceed the integers of the checker)
Ms(t) == t

\* datetime.fromtimestamp(ms / 1000, tz=timezone.utc), in hours
FromTimestampMs(ms) == ms

\* a ses_*.json file.  kind "garbage" is a file that cannot be opened or that
\* json.load rejects, "nonobject" valid JSON that is not an object, "object"
\* session metadata; an absent id is "", an absent directory or time.created
\* is None, an absent or zero time.updated is None.
OcSes(kind, id, directory, created, updated) ==
    [kind |-> kind, id |-> id, directory |-> directory,
     created |-> created, updated |-> updated]

OpenCodeSessionFiles ==
    {OcSes("garbage", "", None, None, None),
     OcSes("nonobject", "", None, None, None),
     OcSes("object", "o1", Some("/work/app"), Some(Ms(10)), Some(Ms(20))),
     OcSes("object", "o1", None, Some(Ms(10)), None),
     OcSes("object", "o1", Some("/work/app"), None, Some(Ms(20)))}

\* a msg_*.json file; an absent modelID is "unknown", an absent token count
\* is 0, an absent or zero time.completed is None.
OcMsg(kind, role, modelID, tokens, completed) ==
    [kind |-> kind, role |-> role, modelID |-> modelID, tokens |-> tokens,
     completed |-> completed]

OpenCodeMessageFiles ==
    {OcMsg("garbage", "", "unknown", Usage(0, 0, 0, 0), None),
     OcMsg("nonobject", "", "unknown", Usage(0, 0, 0, 0), None),
     OcMsg("object", "assistant", "m1", Usage(100, 50, 10, 5), Some(Ms(30))),
     OcMsg("object", "assistant", "m2", Usage(7, 3, 0, 0), Some(Ms(15))),
     OcMsg("object", "assistant", "unknown", Usage(1, 1, 1, 1), None),
     OcMsg("object", "user", "m1", Usage(9, 9, 9, 9), Some(Ms(40)))}

\* the locals of _parse_session before the first message file
OpenCodeLocals(ses) ==
    [end_time |-> IF ses.updated # None
                  THEN Some(FromTimestampMs(ses.updated[1])) ELSE None,
     tokens |-> EmptyTokens, message_count |-> 0, models |-> EmptyDict,
     raised |-> FALSE]

\* the body of  for msg_file in ...glob("msg_*.json"):  with end_time set to
\* every completion time
OpenCodeStepLastCompleted(acc, msg) ==
    IF msg.kind = "garbage" THEN acc
    ELSE IF msg.kind = "nonobject" THEN [acc EXCEPT !.raised = TRUE]
    ELSE IF msg.role # "assistant" THEN acc
    ELSE [acc EXCEPT
            !.message_count = @ + 1,
            !.models = IF msg.modelID # "unknown"
                       THEN DictPut(@, msg.modelID, DictGet(@, msg.modelID, 0) + 1)
                       ELSE @,
            !.tokens = AddTokens(@, msg.tokens),
            !.end_time = IF msg.completed # None /\ @ # None
                         THEN Some(FromTimestampMs(msg.completed[1]))
                         ELSE @]

\* the body of  for msg_file in ...glob("msg_*.json"):  a file that cannot
\* be read or parsed is skipped; a file that holds valid JSON that is not an
\* object makes msg.get raise AttributeError, which nothing catches
OpenCodeStep(acc, msg) ==
    IF msg.kind = "garbage" THEN acc
    ELSE IF msg.kind = "nonobject" THEN [acc EXCEPT !.raised = TRUE]
    ELSE IF msg.role # "assistant" THEN acc
    ELSE [acc EXCEPT
            !.message_count = @ + 1,
            !.models = IF msg.modelID # "unknown"
                       THEN DictPut(@, msg.modelID, DictGet(@, msg.modelID, 0) + 1)
                       ELSE @,
            !.tokens = AddTokens(@, msg.tokens),
            !.end_time = IF /\ msg.completed # None /\ @ # None
                            /\ FromTimestampMs(msg.completed[1]) > @[1]
                         THEN Some(FromTimestampMs(msg.completed[1]))
                         ELSE @]

RECURSIVE OpenCodeFold(_, _)
OpenCodeFold(acc, msgs) ==
    IF msgs = <<>> \/ acc.raised THEN acc
    ELSE OpenCodeFold(OpenCodeStep(acc, Head(msgs)), Tail(msgs))

\* _parse_session(ses_path, message_dir): whether it raises, and the Session
\* or None it returns otherwise.  msgs are the files of message_dir/<id>.
OpenCodeParseSession(ses, msgs) ==
    IF ses.kind = "garbage" THEN [raised |-> FALSE, session |-> None]
    ELSE IF ses.kind = "nonobject" THEN [raised |-> TRUE, session |-> None]
    ELSE IF ses.id = "" THEN [raised |-> FALSE, session |-> None]
    ELSE IF ses.created = None THEN [raised |-> FALSE, session |-> None]
    ELSE LET acc == OpenCodeFold(OpenCodeLocals(ses), msgs)
         IN IF acc.raised THEN [raised |-> TRUE, session |-> None]
            ELSE [raised |-> FALSE,
                  session |-> Some(
                     [session_id |-> ses.id,
                      agent |-> "opencode",
                      start_time |-> FromTimestampMs(ses.created[1]),
                      end_time |-> acc.end_time,
                      model |-> MostUsedModel(acc.models),
                      project |-> IF ses.directory # None THEN ses.directory[1]
                                  ELSE "unknown",
                      message_count |-> acc.message_count,
                      tokens |-> acc.tokens])]

InitOpenCode ==
    /\ ClaudeOnly
    /\ cc_files = <<>> /\ cc_file = 0 /\ cc_line = 0 /\ cc_seen = <<>>
    /\ cc_sessions = EmptyDict /\ cc_result = <<>> /\ cc_pc = "idle"
    /\ cx_files = <<>> /\ cx_file = 0
    /\ cx_failed = {} /\ cx_result = <<>> /\ cx_pc = "idle"
    /\ oc_ses \in SeqsUpTo(OpenCodeSessionFiles, MaxFiles)
    /\ oc_msgs \in SeqsUpTo(OpenCodeMessageFiles, MaxMessages)
    /\ oc_file = 1
    /\ oc_result = <<>>
    /\ oc_pc = "read"
    /\ gm_files = <<>> /\ gm_tmp = FALSE /\ gm_result = <<>> /\ gm_pc = "idle"
    /\ agg_pc = "idle" /\ agg_first = <<>>
    /\ ToolsIdle

\* session = self._parse_session(ses_file, message_dir);
\* if session is not None: results.append(session)
OpenCodeParse ==
    /\ oc_pc = "read"
    /\ oc_file <= Len(oc_ses)
    /\ LET r == OpenCodeParseSession(oc_ses[oc_file], oc_msgs)
       IN IF r.raised
          THEN /\ oc_pc' = "raised"
               /\ UNCHANGED <<oc_file, oc_result>>
          ELSE /\ oc_result' = oc_result \o r.session
               /\ oc_file' = oc_file + 1
               /\ UNCHANGED oc_pc
    /\ UNCHANGED <<oc_ses, oc_msgs, sanVars, pushVars, claudeVars, codexVars,
                   geminiVars, aggVars, toolVars>>

\* return results
OpenCodeReturn ==
    /\ oc_pc = "read"
    /\ oc_file > Len(oc_ses)
    /\ oc_pc' = "returned"
    /\ UNCHANGED <<oc_ses, oc_msgs, oc_file, oc_result, sanVars, pushVars,
                   claudeVars, codexVars, geminiVars, aggVars, toolVars>>

NextOpenCode == OpenCodeParse \/ OpenCodeReturn

SpecOpenCode == InitOpenCode /\ [][NextOpenCode]_vars

----------------------------------------------------------------------------
(* collectors/gemini_cli.py *)

\* a message of a session file; an absent token count is 0, an absent model
\* is "unknown"
GmMsg(type, tokens, model) == [type |-> type, tokens |-> tokens, model |-> model]

GeminiMessages ==
    {GmMsg("user", Usage(0, 0, 0, 0), "unknown"),
     GmMsg("gemini", Usage(500, 35, 100, 0), "gemini-3-flash-preview"),
     GmMsg("info", Usage(3, 3, 3, 0), "other-model")}

\* a session-*.json file: whether its modification time lies within the
\* last 365 days, its sessionId ("" when absent), startTime, lastUpdated and
\* messages; kind is as for opencode
GmFile(kind, recent, sessionId, startTime, lastUpdated, messages) ==
    [kind |-> kind, recent |-> recent, sessionId |-> sessionId,
     startTime |-> startTime, lastUpdated |-> lastUpdated, messages |-> messages]

GeminiSessionFiles ==
    {GmFile("object", TRUE, "abc-123", Ts(10), Ts(11), msgs)
        : msgs \in SeqsUpTo(GeminiMessages, MaxMessages)}
    \cup {GmFile("object", FALSE, "old-1", Ts(10), Ts(11), <<>>),
          GmFile("object", TRUE, "", Ts(10), Ts(11), <<>>),
          GmFile("garbage", TRUE, "", TsAbsent, TsAbsent, <<>>)}

InitGemini ==
    /\ ClaudeOnly
    /\ cc_files = <<>> /\ cc_file = 0 /\ cc_line = 0 /\ cc_seen = <<>>
    /\ cc_sessions = EmptyDict /\ cc_result = <<>> /\ cc_pc = "idle"
    /\ cx_files = <<>> /\ cx_file = 0
    /\ cx_failed = {} /\ cx_result = <<>> /\ cx_pc = "idle"
    /\ oc_ses = <<>> /\ oc_msgs = <<>> /\ oc_file = 0 /\ oc_result = <<>> /\ oc_pc = "idle"
    /\ gm_tmp \in BOOLEAN
    /\ gm_files \in IF gm_tmp THEN SeqsUpTo(GeminiSessionFiles, MaxFiles) ELSE {<<>>}
    /\ gm_result = <<>>
    /\ gm_pc = "call"
    /\ agg_pc = "idle" /\ agg_first = <<>>
    /\ ToolsIdle

\* if not tmp_dir.exists(): return []
GeminiNoTmpDir ==
    /\ gm_pc = "call"
    /\ ~gm_tmp
    /\ gm_result' = <<>>
    /\ gm_pc' = "returned"
    /\ UNCHANGED <<gm_files, gm_tmp, sanVars, pushVars, claudeVars, codexVars,
                   openVars, aggVars, toolVars>>

\* mtime_cutoff = self._cutoff_timestamp(days): neither GeminiCliCollector
\* nor BaseCollector defines _cutoff_timestamp, so the attribute lookup
\* raises AttributeError before any session file is looked at
GeminiCutoffTimestamp ==
    /\ gm_pc = "call"
    /\ gm_tmp
    /\ gm_pc' = "raised"
    /\ UNCHANGED <<gm_files, gm_tmp, gm_result, sanVars, pushVars, claudeVars,
                   codexVars, openVars, aggVars, toolVars>>

NextGemini == GeminiNoTmpDir \/ GeminiCutoffTimestamp

SpecGemini == InitGemini /\ [][NextGemini]_vars

----------------------------------------------------------------------------
(* The collectors that produce Sessions, each reading the log of one       *)
(* session in which the same model names occur in the same order           *)

\* the model names a record can carry; "" stands for a record without a
\* model, which claude_code and opencode read as "unknown"
LoggedModels == {"m1", "m2", "unknown", ""}

\* msg.get("model", "unknown") / msg.get("modelID", "unknown")
ModelOrUnknown(name) == IF name = "" THEN "unknown" ELSE name

InitModels ==
    /\ ClaudeOnly
    /\ \E names \in SeqsUpTo(LoggedModels, MaxRecords) :
          /\ cc_files = <<[i \in 1..Len(names) |->
                             CcLine("object", "s1", "assistant", Ts(i),
                                    ModelOrUnknown(names[i]),
                                    Usage(1, 1, 0, 0))]>>
          /\ cx_files = <<<<CxLine("object", "session_meta", Ts(0),
                                   [NoFields EXCEPT !.id = Some("c1")])>>
                          \o [i \in 1..Len(names) |->
                                CxLine("object", "turn_context", Ts(i),
                                       [NoFields EXCEPT !.model = names[i]])]>>
          /\ oc_ses = <<OcSes("object", "o1", None, Some(Ms(0)), None)>>
          /\ oc_msgs = [i \in 1..Len(names) |->
                          OcMsg("object", "assistant", ModelOrUnknown(names[i]),
                                Usage(1, 1, 0, 0), None)]
    /\ cc_file = 1 /\ cc_line = 0 /\ cc_seen = <<>>
    /\ cc_sessions = EmptyDict /\ cc_result = <<>> /\ cc_pc = "read"
    /\ cx_file = 1 /\ cx_failed = {} /\ cx_result = <<>> /\ cx_pc = "read"
    /\ oc_file = 1 /\ oc_result = <<>> /\ oc_pc = "read"
    /\ gm_files = <<>> /\ gm_tmp = FALSE /\ gm_result = <<>> /\ gm_pc = "idle"
    /\ agg_pc = "idle" /\ agg_first = <<>>
    /\ ToolsIdle

NextModels == NextClaude \/ NextCodex \/ NextOpenCode

SpecModels == InitModels /\ [][NextModels]_vars

----------------------------------------------------------------------------
(* cli.py export: the collectors read logs whose records carry the same     *)
(* token counts, and aggregate gets every Session they return               *)

\* the values a token count of a log record can have: the collectors take
\* whatever number the JSON holds
LoggedCounts == {-5, 0, 7}

InitTokens ==
    /\ ClaudeOnly
    /\ \E counts \in SeqsUpTo(LoggedCounts, MaxRecords) :
          /\ cc_files = <<[i \in 1..Len(counts) |->
                             CcLine("object", "s1", "assistant", Ts(200 + i), "m1",
                                    Usage(counts[i], 0, counts[i], 0))]>>
          /\ cx_files = <<<<CxLine("object", "session_meta", Ts(200),
                                   [NoFields EXCEPT !.id = Some("c1")])>>
                          \o [i \in 1..Len(counts) |->
                                CxLine("object", "event_msg", Ts(200 + i),
                                       [NoFields EXCEPT
                                          !.evt_type = "token_count",
                                          !.last_token_usage =
                                              Some(LastUsage(counts[i], 0, counts[i]))])]>>
          /\ oc_ses = <<OcSes("object", "o1", None, Some(Ms(200)), None)>>
          /\ oc_msgs = [i \in 1..Len(counts) |->
                          OcMsg("object", "assistant", "m1",
                                Usage(counts[i], 0, counts[i], 0), None)]
    /\ cc_file = 1 /\ cc_line = 0 /\ cc_seen = <<>>
    /\ cc_sessions = EmptyDict /\ cc_result = <<>> /\ cc_pc = "read"
    /\ cx_file = 1 /\ cx_failed = {} /\ cx_result = <<>> /\ cx_pc = "read"
    /\ oc_file = 1 /\ oc_result = <<>> /\ oc_pc = "read"
    /\ gm_files = <<>> /\ gm_tmp = FALSE /\ gm_result = <<>> /\ gm_pc = "idle"
    /\ agg_pc = "call" /\ agg_first = <<>>
    /\ ToolsIdle

\* all_sessions.extend(c.collect()) for each collector, in the order of
\* COLLECTOR_MAP, then stats = aggregate(all_sessions, config)
ExportAggregate ==
    /\ agg_pc = "call"
    /\ cc_pc = "returned" /\ cx_pc = "returned" /\ oc_pc = "returned"
    /\ sessions' = cc_result \o cx_result \o oc_result
    /\ stats' = Aggregate(sessions', config, now)
    /\ agg_pc' = "returned"
    /\ UNCHANGED <<USERNAME, HOME_DIR, now, config, data, json_str, error, san_pc,
                   pushVars, claudeVars, codexVars, openVars, geminiVars, agg_first, toolVars>>

NextTokens == NextClaude \/ NextCodex \/ NextOpenCode \/ ExportAggregate

SpecTokens == InitTokens /\ [][NextTokens]_vars

----------------------------------------------------------------------------
(* collectors/__init__.py: get_collectors *)

\* the keys of COLLECTOR_MAP
COLLECTOR_MAP == {"claude_code", "codex", "opencode"}

\* the fields of PathsConfig
PathsFields == {"claude_code", "codex", "gemini_cli", "opencode"}

\* the names config.enabled_agents can hold: the four agents and a name no
\* collector exists for
EnabledNames == PathsFields \cup {"cursor"}

\* the list get_collectors builds: a name is skipped when COLLECTOR_MAP has
\* no class for it, when config.paths has no such field, or when
\* is_available() finds the data root missing
GetCollectors(enabled, roots) ==
    SelectSeq(enabled, LAMBDA name : /\ name \in COLLECTOR_MAP
                                     /\ name \in PathsFields
                                     /\ name \in roots)

InitGetCollectors ==
    /\ ClaudeOnly
    /\ cc_files = <<>> /\ cc_file = 0 /\ cc_line = 0 /\ cc_seen = <<>>
    /\ cc_sessions = EmptyDict /\ cc_result = <<>> /\ cc_pc = "idle"
    /\ cx_files = <<>> /\ cx_file = 0
    /\ cx_failed = {} /\ cx_result = <<>> /\ cx_pc = "idle"
    /\ oc_ses = <<>> /\ oc_msgs = <<>> /\ oc_file = 0 /\ oc_result = <<>> /\ oc_pc = "idle"
    /\ gm_files = <<>> /\ gm_tmp = FALSE /\ gm_result = <<>> /\ gm_pc = "idle"
    /\ agg_pc = "idle" /\ agg_first = <<>>
    /\ enabled_agents \in SeqsUpTo(EnabledNames, MaxEnabled)
    /\ existing_roots \in SUBSET PathsFields
    /\ collectors = <<>>
    /\ gc_pc = "call"
    /\ crontab = <<>> /\ cron_original = <<>> /\ cron_calls = <<>> /\ cron_pc = "idle"
    /\ lc_pc = "idle"

\* collectors = get_collectors(config)
GetCollectorsCall ==
    /\ gc_pc = "call"
    /\ collectors' = GetCollectors(enabled_agents, existing_roots)
    /\ gc_pc' = "returned"
    /\ UNCHANGED <<enabled_agents, existing_roots, sanVars, pushVars, claudeVars,
                   codexVars, openVars, geminiVars, aggVars,
                   crontab, cron_original, cron_calls, cron_pc, lc_pc>>

SpecGetCollectors == InitGetCollectors /\ [][GetCollectorsCall]_vars

----------------------------------------------------------------------------
(* scheduler.py: CrontabScheduler *)

CRONTAB_MARKER ==
    <<"#", " ", "v", "i", "b", "e", "-", "c", "l", "o", "c", "k", "-", "p", "u", "s", "h">>

\* LOG_DIR / "push.log" for the home directory /home/dex
CronLogPath ==
    <<"/", "h", "o", "m", "e", "/", "d", "e", "x", "/", ".", "c", "o", "n", "f", "i", "g",
      "/", "v", "i", "b", "e", "-", "c", "l", "o", "c", "k", "/", "l", "o", "g", "s", "/",
      "p", "u", "s", "h", ".", "l", "o", "g">>

\* the binary resolve_binary() found
CronBinary ==
    <<"/", "u", "s", "r", "/", "l", "o", "c", "a", "l", "/", "b", "i", "n", "/", "v", "i",
      "b", "e", "-", "c", "l", "o", "c", "k">>

\* the characters at which str.splitlines() ends a line; subprocess's text
\* mode has already turned "\r\n" and "\r" into "\n", and of the other
\* boundaries (\v, \f, \x1c-\x1e, \x85, \u2028, \u2029) the form feed
\* stands for all
LineBoundaries == {"\n", "\f"}

\* the text cut after every character of bounds, these characters dropped,
\* no empty last piece when the text ends with one of them
SplitAt(text, bounds) ==
    LET ends == {i \in 1..Len(text) : text[i] \in bounds}
        n == Cardinality(ends)
        End(j) == IF j = 0 THEN 0
                  ELSE CHOOSE i \in ends : Cardinality({k \in ends : k < i}) = j - 1
        cut == [j \in 1..n |-> SubSeq(text, End(j - 1) + 1, End(j) - 1)]
    IN IF End(n) = Len(text) THEN cut
       ELSE Append(cut, SubSeq(text, End(n) + 1, Len(text)))

\* str.splitlines()
SplitLines(text) == SplitAt(text, LineBoundaries)

\* int(p) for a string of decimal digits
RECURSIVE ParseInt(_)
ParseInt(p) ==
    IF p = <<>> THEN 0
    ELSE 10 * ParseInt(SubSeq(p, 1, Len(p) - 1))
         + (CHOOSE d \in 0..9 : DigitOf(d) = p[Len(p)])

\* hour, minute = (int(p) for p in time.split(":")) for a time "HH:MM",
\* then cron_expr
CronExpr(interval, time) ==
    LET hour == ParseInt(SubSeq(time, 1, 2))
        minute == ParseInt(SubSeq(time, 4, 5))
    IN IF interval = "hourly"
       THEN IntStr(minute) \o <<" ", "*", " ", "*", " ", "*", " ", "*">>
       ELSE IF interval = "weekly"
       THEN IntStr(minute) \o <<" ">> \o IntStr(hour) \o <<" ", "*", " ", "*", " ", "1">>
       ELSE IntStr(minute) \o <<" ">> \o IntStr(hour) \o <<" ", "*", " ", "*", " ", "*">>

\* cron_line = f"{cron_expr} {binary} push >> {log_path} 2>&1 {CRONTAB_MARKER}"
CronLine(binary, interval, time) ==
    CronExpr(interval, time) \o <<" ">> \o binary
        \o <<" ", "p", "u", "s", "h", " ", ">", ">", " ">> \o CronLogPath
        \o <<" ", "2", ">", "&", "1", " ">> \o CRONTAB_MARKER

\* the lines of the text that do not contain the marker
WithoutMarker(text) ==
    SelectSeq(SplitLines(text), LAMBDA line : ~Contains(line, CRONTAB_MARKER))

\* the text schedule() installs over the existing crontab
ScheduleText(existing, binary, interval, time) ==
    Join(Append(WithoutMarker(existing), CronLine(binary, interval, time)), <<"\n">>)
        \o <<"\n">>

\* the text unschedule() installs over the existing crontab
UnscheduleText(existing) ==
    IF WithoutMarker(existing) = <<>> THEN <<>>
    ELSE Join(WithoutMarker(existing), <<"\n">>) \o <<"\n">>

\* the lines a crontab can hold before the first call: a job, an empty
\* line, a comment with a form feed in it, an entry of an earlier
\* vibe-clock schedule
CronUserLines ==
    {<<"0", " ", "5", " ", "*", " ", "*", " ", "*", " ", "/", "u", "s", "r", "/", "b", "i", "n", "/", "b", "a", "c", "k", "u", "p">>,
     <<>>,
     <<"#", " ", "j", "o", "b", "s", "\f", "n", "i", "g", "h", "t", "l", "y">>,
     CronLine(<<"/", "u", "s", "r", "/", "b", "i", "n", "/", "v", "i", "b", "e", "-", "c", "l", "o", "c", "k">>, "daily", <<"0", "0", ":", "0", "0">>)}

InitCrontab ==
    /\ ClaudeOnly
    /\ cc_files = <<>> /\ cc_file = 0 /\ cc_line = 0 /\ cc_seen = <<>>
    /\ cc_sessions = EmptyDict /\ cc_result = <<>> /\ cc_pc = "idle"
    /\ cx_files = <<>> /\ cx_file = 0
    /\ cx_failed = {} /\ cx_result = <<>> /\ cx_pc = "idle"
    /\ oc_ses = <<>> /\ oc_msgs = <<>> /\ oc_file = 0 /\ oc_result = <<>> /\ oc_pc = "idle"
    /\ gm_files = <<>> /\ gm_tmp = FALSE /\ gm_result = <<>> /\ gm_pc = "idle"
    /\ agg_pc = "idle" /\ agg_first = <<>>
    /\ enabled_agents = <<>> /\ existing_roots = {} /\ collectors = <<>> /\ gc_pc = "idle"
    /\ \E lines \in SeqsUpTo(CronUserLines, MaxCronLines) :
          crontab = Concat([i \in 1..Len(lines) |-> lines[i] \o <<"\n">>])
    /\ cron_original = crontab
    /\ cron_calls = <<>>
    /\ cron_pc = "ready"
    /\ lc_pc = "idle"

\* CrontabScheduler().schedule(binary, interval, "08:05") on an existing
\* crontab (crontab -l returns 0)
CrontabSchedule ==
    /\ cron_pc = "ready"
    /\ Len(cron_calls) < MaxCalls
    /\ \E interval \in {"hourly", "daily", "weekly"} :
          crontab' = ScheduleText(crontab, CronBinary, interval, <<"0", "8", ":", "0", "5">>)
    /\ cron_calls' = Append(cron_calls, "schedule")
    /\ UNCHANGED <<cron_original, cron_pc, lc_pc, enabled_agents, existing_roots,
                   collectors, gc_pc, sanVars, pushVars, claudeVars, codexVars, openVars,
                   geminiVars, aggVars>>

\* CrontabScheduler().unschedule() on an existing crontab
CrontabUnschedule ==
    /\ cron_pc = "ready"
    /\ Len(cron_calls) < MaxCalls
    /\ crontab' = UnscheduleText(crontab)
    /\ cron_calls' = Append(cron_calls, "unschedule")
    /\ UNCHANGED <<cron_original, cron_pc, lc_pc, enabled_agents, existing_roots,
                   collectors, gc_pc, sanVars, pushVars, claudeVars, codexVars, openVars,
                   geminiVars, aggVars>>

NextCrontab == CrontabSchedule \/ CrontabUnschedule

SpecCrontab == InitCrontab /\ [][NextCrontab]_vars

----------------------------------------------------------------------------
(* config.py: load_config on its own *)

\* the configuration file: never written, or holding a token, a gist id or
\* a default_days other than Config()'s; the environment: each variable
\* unset or set
InitLoadConfig ==
    /\ USERNAME = "dex" /\ HOME_DIR = "/home/dex" /\ now = 264
    /\ cfg_file \in {[DefaultFile EXCEPT !.default_days = d, !.token = t, !.gist_id = g]
                        : d \in {30, 14}, t \in {"", "tok"}, g \in {"", "g1"}}
    /\ environ \in {[GITHUB_TOKEN |-> t, VIBE_CLOCK_GIST_ID |-> g, VIBE_CLOCK_DAYS |-> d]
                       : t \in {"", "envtok"}, g \in {"", "g2"}, d \in {None, Some(7)}}
    /\ PushFresh
    /\ push_pc = "idle"
    /\ runs = 0
    /\ cc_files = <<>> /\ cc_file = 0 /\ cc_line = 0 /\ cc_seen = <<>>
    /\ cc_sessions = EmptyDict /\ cc_result = <<>> /\ cc_pc = "idle"
    /\ cx_files = <<>> /\ cx_file = 0
    /\ cx_failed = {} /\ cx_result = <<>> /\ cx_pc = "idle"
    /\ oc_ses = <<>> /\ oc_msgs = <<>> /\ oc_file = 0 /\ oc_result = <<>> /\ oc_pc = "idle"
    /\ gm_files = <<>> /\ gm_tmp = FALSE /\ gm_result = <<>> /\ gm_pc = "idle"
    /\ agg_pc = "idle" /\ agg_first = <<>>
    /\ enabled_agents = <<>> /\ existing_roots = {} /\ collectors = <<>> /\ gc_pc = "idle"
    /\ crontab = <<>> /\ cron_original = <<>> /\ cron_calls = <<>> /\ cron_pc = "idle"
    /\ lc_pc = "call"

\* config = load_config()
LoadConfigCall ==
    /\ lc_pc = "call"
    /\ config' = LoadConfig(cfg_file, environ)
    /\ lc_pc' = "returned"
    /\ UNCHANGED <<USERNAME, HOME_DIR, now, sessions, stats, data, json_str, error,
                   san_pc, pushVars, claudeVars, codexVars, openVars, geminiVars,
                   aggVars, enabled_agents, existing_roots, collectors, gc_pc,
                   crontab, cron_original, cron_calls, cron_pc>>

SpecLoadConfig == InitLoadConfig /\ [][LoadConfigCall]_vars

----------------------------------------------------------------------------
(* Properties of sanitize *)

\* the stats as sanitize publishes them: no project breakdown, no
\* placeholder entry in the model breakdown
Published(st) ==
    [st EXCEPT !.projects = <<>>,
               !.models = SelectSeq(@, LAMBDA m : m.model \notin PlaceholderModels)]

\* C2 as stated: whenever the serialized form of the stats handed to
\* sanitize contains the home directory path, sanitize raises.
C2_RaisesOnHomeInInput ==
    (san_pc # "call" /\ Contains(DumpJson(stats, FALSE), Chars(HOME_DIR)))
        => san_pc = "raised"

\* C2 amended: whenever the serialized form of the stats as they would be
\* published (project breakdown stripped, placeholder models removed)
\* contains the home directory path, sanitize raises.
C2_RaisesOnHomeInPublished ==
    (san_pc # "call" /\ Contains(DumpJson(Published(stats), FALSE), Chars(HOME_DIR)))
        => (san_pc = "raised" /\ error = "path")

\* a home directory path in a model name has made sanitize raise
C2_Witness ==
    /\ san_pc = "raised"
    /\ error = "path"
    /\ Contains(json_str, Chars(HOME_DIR))
    /\ \E i \in 1..Len(stats.models) : Contains(Chars(stats.models[i].model), Chars(HOME_DIR))

\* the username occurs in js between regular-expression word boundaries
\* (\b: digits and "_" are word characters)
WordBoundaryOccurs(js, u) ==
    \E i \in 1..Len(js) :
        /\ OccursAt(js, u, i)
        /\ (i = 1 \/ js[i - 1] \notin WordChars)
        /\ (i + Len(u) > Len(js) \/ js[i + Len(u)] \notin WordChars)

\* the username occurs in js with no ASCII letter directly before or after
LetterBoundaryOccurs(js, u) ==
    \E i \in 1..Len(js) :
        /\ OccursAt(js, u, i)
        /\ (i = 1 \/ js[i - 1] \notin Letters)
        /\ (i + Len(u) > Len(js) \/ js[i + Len(u)] \notin Letters)

SafeProjectName(p) ==
    /\ ~Contains(Chars(p), <<"/">>)
    /\ ~PathPatternSearch(Chars(p))
    /\ ~PathLeak(Chars(p))
    /\ ~UsernameLeak(Chars(p))

\* a name that holds neither a blocked home path nor the username between
\* non-letters
CleanName(n) == ~PathLeak(Chars(n)) /\ ~UsernameLeak(Chars(n))

AllSessions(P(_)) == \A i \in 1..Len(sessions) : P(sessions[i])

\* C4 as stated: sanitize does not raise for stats aggregated only from
\* sessions with safe project names, whatever their other fields are.
C4_SafeProjectsNeverRaise ==
    (san_pc # "call" /\ AllSessions(LAMBDA s : SafeProjectName(s.project)))
        => san_pc = "returned"

\* C4 amended: sanitize does not raise for stats aggregated only from
\* sessions whose model and agent names hold neither a blocked home path nor
\* the username between non-letters, whatever their project names are.
C4_CleanNamesNeverRaise ==
    (san_pc # "call" /\ AllSessions(LAMBDA s : CleanName(s.model) /\ CleanName(s.agent)))
        => san_pc = "returned"

\* sanitize returned for sessions with clean model names one of which has a
\* project name holding the home directory path
C4_Witness ==
    /\ san_pc = "returned"
    /\ sessions # <<>>
    /\ AllSessions(LAMBDA s : CleanName(s.model) /\ CleanName(s.agent))
    /\ \E i \in 1..Len(sessions) : ~SafeProjectName(sessions[i].project)

KeptPositions(inp) ==
    {i \in 1..Len(inp) : inp[i].model # "unknown" /\ inp[i].model # "<synthetic>"}

\* C6: the model breakdown sanitize returns is the input model breakdown
\* without the entries named "unknown" or "<synthetic>": every other entry is
\* there, unchanged, and in the same relative order.
C6_ModelsFiltered ==
    san_pc = "returned" =>
        \E f \in [1..Len(data.models) -> 1..Len(stats.models)] :
            /\ \A a, b \in 1..Len(data.models) : a < b => f[a] < f[b]
            /\ {f[k] : k \in 1..Len(data.models)} = KeptPositions(stats.models)
            /\ \A k \in 1..Len(data.models) : data.models[k] = stats.models[f[k]]

\* sanitize returned after dropping a placeholder entry and keeping another
C6_Witness ==
    /\ san_pc = "returned"
    /\ \E i \in 1..Len(stats.models) : stats.models[i].model = "<synthetic>"
    /\ Len(data.models) >= 1
    /\ Len(data.models) < Len(stats.models)

----------------------------------------------------------------------------
(* Properties of the push command *)

\* the text without the line breaks and blanks of indent=2
StripWhitespace(cs) == SelectSeq(cs, LAMBDA c : c \notin {" ", "\n"})

\* C1: in every run of the push command sanitize has returned before any
\* HTTP request is sent, the content of every request is the text that leak
\* validation scanned (up to the white space of indent=2), and a run in which
\* validation raised sends no request and saves no configuration.
C1_SanitizeBeforeRequest ==
    /\ requests # <<>> =>
          /\ san_pc = "returned"
          /\ \A i \in 1..Len(requests) : StripWhitespace(requests[i].content) = json_str
    /\ san_pc = "raised" => (requests = <<>> /\ saves = 0 /\ push_pc = "raised")

\* a run has sent the sanitized stats and stored the id of the created gist
C1_Witness ==
    /\ push_pc = "exit0"
    /\ Len(requests) = 1
    /\ saves = 1
    /\ sessions # <<>>

----------------------------------------------------------------------------
(* Properties of the claude_code collector *)

\* the records read so far that satisfy P
SeenRecords(P(_)) == SelectSeq(cc_seen, LAMBDA r : r.kind = "object" /\ P(r))

RECURSIVE SumUsage(_)
SumUsage(records) ==
    IF records = <<>> THEN EmptyTokens
    ELSE AddTokens(SumUsage(Tail(records)), Head(records).usage)

\* the Sessions of the returned list with the given id
ResultsFor(sid) == {i \in 1..Len(cc_result) : cc_result[i].session_id = sid}

\* C7: collect() returns a list of Sessions and never raises, whatever the
\* files hold: what cannot be parsed is skipped.
C7_CollectNeverRaises == cc_pc # "raised"

\* the session ids carried by the records read
SeenIds == {cc_seen[i].sessionId : i \in 1..Len(cc_seen)} \ {""}

IsAssistant(r) == r.type = "assistant"

\* an assistant record whose timestamp parses
IsCounted(r) == r.type = "assistant" /\ r.timestamp.present /\ r.timestamp.valid

\* C8 as stated: the returned list holds exactly one Session per distinct
\* sessionId; its message_count is the number of that id's assistant records
\* and its token counters are the sums of their usage fields.
C8_OneSessionPerId ==
    cc_pc = "returned" =>
        /\ \A i \in 1..Len(cc_result) : cc_result[i].session_id \in SeenIds
        /\ \A sid \in SeenIds :
              /\ Cardinality(ResultsFor(sid)) = 1
              /\ \A i \in ResultsFor(sid) :
                    LET recs == SeenRecords(LAMBDA r : r.sessionId = sid /\ IsAssistant(r))
                    IN /\ cc_result[i].message_count = Len(recs)
                       /\ cc_result[i].tokens = SumUsage(recs)

\* the session ids that have an assistant record with a parseable timestamp
CountedIds == {sid \in SeenIds : SeenRecords(LAMBDA r : r.sessionId = sid /\ IsCounted(r)) # <<>>}

\* C8 amended: the returned list holds exactly one Session per distinct
\* sessionId that has at least one assistant record with a parseable
\* timestamp, also when the records are spread over several files; its
\* message_count is the number of those records and its token counters are
\* the sums of their usage fields; other records add nothing.
C8_OneSessionPerCountedId ==
    cc_pc = "returned" =>
        /\ \A i \in 1..Len(cc_result) : cc_result[i].session_id \in CountedIds
        /\ \A sid \in CountedIds :
              /\ Cardinality(ResultsFor(sid)) = 1
              /\ \A i \in ResultsFor(sid) :
                    LET recs == SeenRecords(LAMBDA r : r.sessionId = sid /\ IsCounted(r))
                    IN /\ cc_result[i].message_count = Len(recs)
                       /\ cc_result[i].tokens = SumUsage(recs)

\* one session was folded from two assistant records read from two files
C8_Witness ==
    /\ cc_pc = "returned"
    /\ Len(cc_files) = 2
    /\ \E a \in 1..Len(cc_files[1]), b \in 1..Len(cc_files[2]) :
          /\ IsCounted(cc_files[1][a]) /\ cc_files[1][a].sessionId = "s1"
          /\ IsCounted(cc_files[2][b]) /\ cc_files[2][b].sessionId = "s1"
    /\ \E i \in 1..Len(cc_result) :
          /\ cc_result[i].session_id = "s1"
          /\ cc_result[i].message_count = 2
          /\ cc_result[i].tokens.input_tokens = 180
          /\ cc_result[i].tokens.output_tokens = 90

\* the parseable timestamps of the records in records
TimesOf(records) == {records[i].timestamp.t : i \in 1..Len(records)}

IsTimed(r) == r.timestamp.present /\ r.timestamp.valid

\* C9 as stated: start_time is the minimum and end_time the maximum of the
\* timestamps of all records read for the sessionId, of every record type.
C9_MinMaxOfAllRecords ==
    cc_pc = "returned" =>
        \A i \in 1..Len(cc_result) :
            LET ts == TimesOf(SeenRecords(LAMBDA r :
                          r.sessionId = cc_result[i].session_id /\ IsTimed(r)))
            IN /\ cc_result[i].start_time \in ts
               /\ \A t \in ts : cc_result[i].start_time <= t
               /\ cc_result[i].end_time # None
               /\ cc_result[i].end_time[1] \in ts
               /\ \A t \in ts : t <= cc_result[i].end_time[1]
               /\ cc_result[i].start_time <= cc_result[i].end_time[1]

\* C9 amended: start_time is the minimum and end_time the maximum of the
\* timestamps of the assistant records read for the sessionId (records of
\* other types are not looked at), so start_time <= end_time.
C9_MinMaxOfAssistantRecords ==
    cc_pc = "returned" =>
        \A i \in 1..Len(cc_result) :
            LET ts == TimesOf(SeenRecords(LAMBDA r :
                          r.sessionId = cc_result[i].session_id /\ IsCounted(r)))
            IN /\ cc_result[i].start_time \in ts
               /\ \A t \in ts : cc_result[i].start_time <= t
               /\ cc_result[i].end_time # None
               /\ cc_result[i].end_time[1] \in ts
               /\ \A t \in ts : t <= cc_result[i].end_time[1]
               /\ cc_result[i].start_time <= cc_result[i].end_time[1]

\* a session spans two assistant records that were read latest first
C9_Witness ==
    /\ cc_pc = "returned"
    /\ \E i \in 1..Len(cc_result) :
          /\ cc_result[i].start_time = 1
          /\ cc_result[i].end_time = Some(3)
    /\ \E a, b \in 1..Len(cc_seen) :
          /\ a < b
          /\ IsCounted(cc_seen[a]) /\ cc_seen[a].timestamp.t = 3
          /\ IsCounted(cc_seen[b]) /\ cc_seen[b].timestamp.t = 1

----------------------------------------------------------------------------
(* Properties of the codex collector *)

\* the records of the i-th rollout file that satisfy P
FileRecords(i, P(_)) == SelectSeq(cx_files[i], LAMBDA r : r.kind = "object" /\ P(r))

IsSessionMeta(r) == r.type = "session_meta" /\ r.id # None

IsUserMessage(r) == r.type = "event_msg" /\ r.evt_type = "user_message"

IsAssistantItem(r) == r.type = "response_item" /\ r.role = "assistant"

IsTokenCount(r) ==
    r.type = "event_msg" /\ r.evt_type = "token_count" /\ r.last_token_usage # None

\* the sums of the token_count deltas of records
RECURSIVE SumDeltas(_)
SumDeltas(records) ==
    IF records = <<>> THEN EmptyTokens
    ELSE LET rest == SumDeltas(Tail(records))
             last == Head(records).last_token_usage[1]
         IN [input_tokens |-> rest.input_tokens + last.input_tokens,
             output_tokens |-> rest.output_tokens + last.output_tokens,
             cache_read_tokens |-> rest.cache_read_tokens + last.cached_input_tokens,
             cache_write_tokens |-> 0]

\* the files that were read to the end and hold a session id and a
\* parseable timestamp
YieldingFiles ==
    {i \in 1..Len(cx_files) :
        /\ i \notin cx_failed
        /\ FileRecords(i, IsSessionMeta) # <<>>
        /\ FileRecords(i, IsTimed) # <<>>}

\* the position in the returned list of the Session of yielding file i
RankOf(i) == Cardinality({j \in YieldingFiles : j <= i})

\* C10: the list collect returns holds, in file order, exactly one Session
\* for every rollout file that could be read and in which a session id and a
\* timestamp were found, and none for any other file (each file is one
\* session); the Session's message_count is the number of
\* user_message events plus the number of response_item records with role
\* assistant of that file, and its token counters are the sums of the
\* file's token_count deltas.
C10_OneSessionPerRollout ==
    cx_pc = "returned" =>
        /\ Len(cx_result) = Cardinality(YieldingFiles)
        /\ \A i \in YieldingFiles :
              LET s == cx_result[RankOf(i)]
              IN /\ s.message_count = Len(FileRecords(i, IsUserMessage))
                                        + Len(FileRecords(i, IsAssistantItem))
                 /\ s.tokens = SumDeltas(FileRecords(i, IsTokenCount))

\* a rollout with a session id, a timestamp and one counted message has
\* become a Session while a second file, with a timestamp but without a
\* session id, has yielded none
C10_Witness ==
    /\ cx_pc = "returned"
    /\ cx_failed = {}
    /\ Len(cx_files) = 2
    /\ Len(cx_result) = 1
    /\ cx_result[1].message_count = 1
    /\ \E i \in 1..2 : FileRecords(i, IsTimed) # <<>> /\ FileRecords(i, IsSessionMeta) = <<>>

----------------------------------------------------------------------------
(* Properties of the opencode collector *)

\* the message files that satisfy P
MessageFiles(P(_)) == SelectSeq(oc_msgs, LAMBDA m : m.kind = "object" /\ P(m))

IsAssistantMessage(m) == m.role = "assistant"

\* the field-wise sum of the tokens of msgs
RECURSIVE SumUsageOf(_)
SumUsageOf(msgs) ==
    IF msgs = <<>> THEN EmptyTokens
    ELSE AddTokens(SumUsageOf(Tail(msgs)), Head(msgs).tokens)

\* the session files for which _parse_session builds a Session
ParsedSessionFiles ==
    {i \in 1..Len(oc_ses) :
        oc_ses[i].kind = "object" /\ oc_ses[i].id # "" /\ oc_ses[i].created # None}

\* the position in the returned list of the Session of session file i
OcRankOf(i) == Cardinality({j \in ParsedSessionFiles : j <= i})

\* the completion times of the assistant messages
CompletionTimes ==
    LET done == MessageFiles(LAMBDA m : IsAssistantMessage(m) /\ m.completed # None)
    IN {FromTimestampMs(done[i].completed[1]) : i \in 1..Len(done)}

\* the greatest element of a non-empty set of numbers
Greatest(S) == CHOOSE x \in S : \A y \in S : y <= x

\* the session-level update time of session file i, as a set
UpdateTime(i) ==
    IF oc_ses[i].updated # None THEN {FromTimestampMs(oc_ses[i].updated[1])} ELSE {}

\* C11 as stated: only messages with role assistant add to message_count and
\* to the token counters, and end_time is the later of the session-level
\* update time and the latest completion time of the assistant messages.
C11_EndIsLatest ==
    oc_pc = "returned" =>
        /\ Len(oc_result) = Cardinality(ParsedSessionFiles)
        /\ \A i \in ParsedSessionFiles :
              LET s == oc_result[OcRankOf(i)]
                  times == UpdateTime(i) \cup CompletionTimes
              IN /\ s.message_count = Len(MessageFiles(IsAssistantMessage))
                 /\ s.tokens = SumUsageOf(MessageFiles(IsAssistantMessage))
                 /\ s.end_time = IF times = {} THEN None ELSE Some(Greatest(times))

\* C11 amended: only messages with role assistant add to message_count and
\* to the token counters; when the session file carries an update time,
\* end_time is the later of that time and the latest completion time of the
\* assistant messages, in whatever order the message files are read, so it
\* is never earlier than the update time; when the session file carries no
\* update time, end_time is absent whatever the messages hold.
C11_EndIsLatestWhenUpdated ==
    oc_pc = "returned" =>
        /\ Len(oc_result) = Cardinality(ParsedSessionFiles)
        /\ \A i \in ParsedSessionFiles :
              LET s == oc_result[OcRankOf(i)]
              IN /\ s.message_count = Len(MessageFiles(IsAssistantMessage))
                 /\ s.tokens = SumUsageOf(MessageFiles(IsAssistantMessage))
                 /\ s.end_time = IF UpdateTime(i) = {} THEN None
                                 ELSE Some(Greatest(UpdateTime(i) \cup CompletionTimes))

\* a session updated at hour 20 has read an assistant message completed at
\* hour 30 and then one completed at hour 15, and ends at hour 30
C11_Witness ==
    /\ oc_pc = "returned"
    /\ Len(oc_msgs) = 2
    /\ oc_msgs[1].completed = Some(Ms(30)) /\ oc_msgs[1].role = "assistant"
    /\ oc_msgs[2].completed = Some(Ms(15)) /\ oc_msgs[2].role = "assistant"
    /\ \E i \in 1..Len(oc_result) :
          oc_result[i].end_time = Some(30) /\ oc_result[i].message_count = 2

----------------------------------------------------------------------------
(* Properties of the gemini_cli collector *)

\* the messages of session file f that satisfy P
GmMessages(f, P(_)) == SelectSeq(f.messages, P)

IsGemini(m) == m.type = "gemini"

IsGeminiOrUser(m) == m.type \in {"gemini", "user"}

\* the recently modified session files with a session id and a start time
RecentSessionFiles ==
    {i \in 1..Len(gm_files) :
        /\ gm_files[i].kind = "object" /\ gm_files[i].recent
        /\ gm_files[i].sessionId # ""
        /\ gm_files[i].startTime.present /\ gm_files[i].startTime.valid}

\* C12: collect() on a data root holding recently modified session files
\* returns one Session for each of them, whose message_count is the number
\* of its messages of type gemini or user and whose token counters are the
\* sums over its gemini messages.
C12_OneSessionPerRecentFile ==
    (gm_pc # "call" /\ RecentSessionFiles # {}) =>
        /\ gm_pc = "returned"
        /\ \A i \in RecentSessionFiles :
              \E k \in 1..Len(gm_result) :
                 /\ gm_result[k].session_id = gm_files[i].sessionId
                 /\ gm_result[k].message_count =
                       Len(GmMessages(gm_files[i], IsGeminiOrUser))
                 /\ gm_result[k].tokens = SumUsageOf(GmMessages(gm_files[i], IsGemini))

----------------------------------------------------------------------------
(* Properties of the reported model *)

\* the number of occurrences of name in the sequence names
Occurrences(names, name) == Cardinality({i \in 1..Len(names) : names[i] = name})

\* the first position of name in names
FirstAt(names, name) == CHOOSE i \in 1..Len(names) :
                            names[i] = name /\ \A j \in 1..(i - 1) : names[j] # name

\* the names of names that are model names: those not in skipped
ObservedModels(names, skipped) == {names[i] : i \in 1..Len(names)} \ skipped

\* model is what a session reports whose records carried names, when the
\* names in skipped do not count as model names: a most used name, the first
\* observed of them, and "unknown" when there is none
ReportsMostUsed(model, names, skipped) ==
    IF ObservedModels(names, skipped) = {} THEN model = "unknown"
    ELSE /\ model \in ObservedModels(names, skipped)
         /\ \A other \in ObservedModels(names, skipped) :
               \/ Occurrences(names, other) < Occurrences(names, model)
               \/ /\ Occurrences(names, other) = Occurrences(names, model)
                  /\ FirstAt(names, model) <= FirstAt(names, other)

\* the model names of records
ModelsOf(records) == [i \in 1..Len(records) |-> records[i].model]

\* the model names of the counted claude_code records of session sid
ClaudeModelsOf(sid) ==
    ModelsOf(SeenRecords(LAMBDA r : r.sessionId = sid /\ IsCounted(r)))

\* the model names of the turn_context records of the rollout file
CodexModels == ModelsOf(SelectSeq(cx_files[1], LAMBDA r : r.type = "turn_context"))

\* the model names of the assistant messages of the opencode session
OpenCodeModels ==
    LET msgs == MessageFiles(IsAssistantMessage)
    IN [i \in 1..Len(msgs) |-> msgs[i].modelID]

\* C13 as stated: in every collector the Session's model is a model name
\* whose number of occurrences in the session is maximal, the first such
\* name observed when several tie, and it is "unknown" exactly when no model
\* name was observed.
C13_ModelIsMostUsed ==
    /\ cc_pc = "returned" =>
          \A k \in 1..Len(cc_result) :
              ReportsMostUsed(cc_result[k].model, ClaudeModelsOf(cc_result[k].session_id),
                              {"unknown", ""})
    /\ cx_pc = "returned" =>
          \A k \in 1..Len(cx_result) :
              ReportsMostUsed(cx_result[k].model, CodexModels, {"unknown", ""})
    /\ oc_pc = "returned" =>
          \A k \in 1..Len(oc_result) :
              ReportsMostUsed(oc_result[k].model, OpenCodeModels, {"unknown", ""})

\* C13 amended: as stated for claude_code and opencode; the codex collector
\* counts the literal "unknown" in a turn_context like any other model name,
\* so there the Session's model is the first most used of the names
\* including "unknown", and it is "unknown" when no model was observed or
\* when "unknown" is itself the first most used name.
C13_ModelIsMostUsedCounted ==
    /\ cc_pc = "returned" =>
          \A k \in 1..Len(cc_result) :
              ReportsMostUsed(cc_result[k].model, ClaudeModelsOf(cc_result[k].session_id),
                              {"unknown", ""})
    /\ cx_pc = "returned" =>
          \A k \in 1..Len(cx_result) :
              ReportsMostUsed(cx_result[k].model, CodexModels, {""})
    /\ oc_pc = "returned" =>
          \A k \in 1..Len(oc_result) :
              ReportsMostUsed(oc_result[k].model, OpenCodeModels, {"unknown", ""})

\* the three collectors have each reported m2 for a session in which m1 was
\* seen first, once, and m2 twice
C13_Witness ==
    /\ cc_pc = "returned" /\ cx_pc = "returned" /\ oc_pc = "returned"
    /\ OpenCodeModels = <<"m1", "m2", "m2">>
    /\ Len(cc_result) = 1 /\ cc_result[1].model = "m2" /\ cc_result[1].message_count = 3
    /\ Len(cx_result) = 1 /\ cx_result[1].model = "m2"
    /\ Len(oc_result) = 1 /\ oc_result[1].model = "m2"

----------------------------------------------------------------------------
(* Properties of aggregate *)

\* the entry dr of exclude_date_ranges is well formed: two dates that parse
WellFormedRange(dr) == Len(dr) = 2 /\ dr[1].valid /\ dr[2].valid

\* the session s starts inside the aggregation window
InWindow(s) == s.start_time >= now - 24 * config.default_days

\* the start date of s lies in a well-formed excluded range
InExcludedRange(s) ==
    \E i \in 1..Len(config.privacy.exclude_date_ranges) :
        LET dr == config.privacy.exclude_date_ranges[i]
        IN /\ WellFormedRange(dr)
           /\ dr[1].day <= s.start_time \div 24
           /\ s.start_time \div 24 <= dr[2].day

\* the project of s matches an exclusion glob (the globs used are a literal
\* prefix followed by "*")
MatchesExclusion(s) ==
    \E i \in 1..Len(config.privacy.exclude_projects) :
        LET pat == Chars(config.privacy.exclude_projects[i])
            prefix == SubSeq(pat, 1, Len(pat) - 1)
        IN /\ pat[Len(pat)] = "*"
           /\ Len(Chars(s.project)) >= Len(prefix)
           /\ SubSeq(Chars(s.project), 1, Len(prefix)) = prefix

\* the sessions the claim says are retained, in input order
Retained ==
    SelectSeq(sessions, LAMBDA s : InWindow(s) /\ ~InExcludedRange(s) /\ ~MatchesExclusion(s))

\* the sum of a sequence of numbers
RECURSIVE SumSeq(_)
SumSeq(xs) == IF xs = <<>> THEN 0 ELSE Head(xs) + SumSeq(Tail(xs))

\* the field-wise sum of the tokens of the entries of seq
TokenSum(seq) ==
    [input_tokens |-> SumSeq([i \in 1..Len(seq) |-> seq[i].tokens.input_tokens]),
     output_tokens |-> SumSeq([i \in 1..Len(seq) |-> seq[i].tokens.output_tokens]),
     cache_read_tokens |-> SumSeq([i \in 1..Len(seq) |-> seq[i].tokens.cache_read_tokens]),
     cache_write_tokens |-> SumSeq([i \in 1..Len(seq) |-> seq[i].tokens.cache_write_tokens])]

\* C14: aggregate retains a session exactly when it starts at or after now
\* minus default_days, its start date lies in no well-formed excluded range
\* (inclusive) and its project matches no exclusion glob; a malformed range
\* entry is ignored and does not disable the others.  The totals are those
\* of the retained sessions.
C14_RetainedExactly ==
    agg_pc = "returned" =>
        /\ stats.total_sessions = Len(Retained)
        /\ stats.total_messages = SumSeq([i \in 1..Len(Retained) |-> Retained[i].message_count])
        /\ stats.total_tokens = TokenSum(Retained)
        /\ {stats.daily[i].date : i \in 1..Len(stats.daily)}
               = {Retained[i].start_time \div 24 : i \in 1..Len(Retained)}

\* a session at the cutoff was kept and a session on day 5 dropped although
\* the list of excluded ranges starts with a malformed entry
C14_Witness ==
    /\ agg_pc = "returned"
    /\ Len(config.privacy.exclude_date_ranges) = 2
    /\ ~WellFormedRange(config.privacy.exclude_date_ranges[1])
    /\ Len(sessions) = 2
    /\ sessions[1].start_time = 96 /\ sessions[2].start_time = 130
    /\ ~MatchesExclusion(sessions[1])
    /\ stats.total_sessions = 1
    /\ stats.daily[1].date = 4

\* the sessions whose project matches no exclusion glob, in input order
NotExcluded == SelectSeq(sessions, LAMBDA s : ~MatchesExclusion(s))

\* the configuration without its project exclusions
NoProjectExclusions == [config EXCEPT !.privacy.exclude_projects = <<>>]

\* C15: a session whose project matches an exclusion glob contributes to no
\* field of the result: the AgentStats are those aggregate returns, without
\* any project exclusion, for the input without the matching sessions, and
\* no entry of the project breakdown names a matching project.
C15_ExcludedContributeNothing ==
    agg_pc = "returned" =>
        /\ stats = Aggregate(NotExcluded, NoProjectExclusions, now)
        /\ \A i \in 1..Len(stats.projects) :
              ~MatchesExclusion([project |-> stats.projects[i].project])

\* of two sessions inside the window one was excluded by its project and
\* the other one alone makes up the result
C15_Witness ==
    /\ agg_pc = "returned"
    /\ Len(sessions) = 2
    /\ InWindow(sessions[1]) /\ InWindow(sessions[2])
    /\ ~InExcludedRange(sessions[1]) /\ ~InExcludedRange(sessions[2])
    /\ MatchesExclusion(sessions[1]) /\ ~MatchesExclusion(sessions[2])
    /\ sessions[1].model # sessions[2].model
    /\ stats.total_sessions = 1
    /\ stats.favorite_model = sessions[2].model
    /\ Len(stats.models) = 1

\* C16: for each of the three breakdowns the field-wise sum of the entries'
\* token counters equals total_tokens.
C16_BreakdownsSumToTotal ==
    agg_pc = "returned" =>
        /\ TokenSum(stats.daily) = stats.total_tokens
        /\ TokenSum(stats.models) = stats.total_tokens
        /\ TokenSum(stats.projects) = stats.total_tokens

\* two sessions of different day, model and project were aggregated into
\* breakdowns of two entries each
C16_Witness ==
    /\ agg_pc = "returned"
    /\ Len(stats.daily) = 2 /\ Len(stats.models) = 2 /\ Len(stats.projects) = 2
    /\ stats.total_tokens.input_tokens = 110
    /\ stats.total_tokens.cache_write_tokens = 1

\* the start hours of the retained sessions, in input order
RetainedHours == [i \in 1..Len(Retained) |-> Retained[i].start_time % 24]

C18_HourlyHistogram ==
    agg_pc = "returned" =>
        /\ Len(stats.hourly) = 24
        /\ \A h \in 0..23 : stats.hourly[h + 1] = Occurrences(RetainedHours, h)
        /\ SumSeq(stats.hourly) = stats.total_sessions
        /\ \A h \in 0..23 : stats.hourly[h + 1] <= stats.hourly[stats.peak_hour + 1]

AggregateOf(q) == Aggregate([i \in 1..Len(sessions) |-> sessions[q[i]]], config, now)

\* the elements of a sequence
Range(seq) == {seq[i] : i \in 1..Len(seq)}

\* C20 as stated: for any two permutations of the same sessions, with the
\* same config and clock, the results are equal in every field, including
\* the order of the breakdown lists, peak_hour and favorite_model.
C20_OrderIndependent ==
    agg_pc = "returned" =>
        \A q \in Permutations(1..Len(sessions)) : AggregateOf(q) = stats

\* the number of retained sessions with model m
SessionsOfModel(m) == Cardinality({i \in 1..Len(Retained) : Retained[i].model = m})

\* C20 amended: for any two permutations of the same sessions, with the same
\* config and clock, the results are equal in the totals, the active agents,
\* the longest session, the hourly list and the daily list; the models and
\* projects lists hold the same entries with the same sequence of sort keys
\* (entries with equal session_count, or equal total_minutes, may change
\* places), and favorite_model and peak_hour are a most used model and a
\* busiest hour in both (which one, when several tie, follows the input
\* order).
C20_OrderIndependentUpToTies ==
    agg_pc = "returned" =>
        \A q \in Permutations(1..Len(sessions)) :
            LET other == AggregateOf(q)
            IN /\ other.days_covered = stats.days_covered
               /\ other.total_sessions = stats.total_sessions
               /\ other.total_messages = stats.total_messages
               /\ other.total_minutes = stats.total_minutes
               /\ other.total_tokens = stats.total_tokens
               /\ other.active_agents = stats.active_agents
               /\ other.longest_session_minutes = stats.longest_session_minutes
               /\ other.hourly = stats.hourly
               /\ other.daily = stats.daily
               /\ Range(other.models) = Range(stats.models)
               /\ [i \in 1..Len(other.models) |-> other.models[i].session_count]
                     = [i \in 1..Len(stats.models) |-> stats.models[i].session_count]
               /\ Range(other.projects) = Range(stats.projects)
               /\ [i \in 1..Len(other.projects) |-> other.projects[i].total_minutes]
                     = [i \in 1..Len(stats.projects) |-> stats.projects[i].total_minutes]
               /\ SessionsOfModel(other.favorite_model) = SessionsOfModel(stats.favorite_model)
               /\ Occurrences(RetainedHours, other.peak_hour)
                     = Occurrences(RetainedHours, stats.peak_hour)

\* two retained sessions of different models, hours and durations: the
\* result for the reversed input has another favorite model
C20_Witness ==
    /\ agg_pc = "returned"
    /\ Len(sessions) = 2
    /\ Len(Retained) = 2
    /\ Retained[1].model # Retained[2].model
    /\ stats.favorite_model = Retained[1].model
    /\ AggregateOf(<<2, 1>>).favorite_model = Retained[2].model
    /\ AggregateOf(<<2, 1>>).longest_session_minutes = 120

----------------------------------------------------------------------------
(* aggregate: two calls *)

\* an AgentStats without its generation timestamp
ExceptGeneratedAt(st) == [st EXCEPT !.generated_at = 0]

CutoffAt(clock) == clock - 24 * config.default_days

\* no session starts between the cutoffs of the two calls
SameWindow ==
    \A i \in 1..Len(sessions) :
        (sessions[i].start_time >= CutoffAt(agg_first[1].stats.generated_at))
            <=> (sessions[i].start_time >= CutoffAt(now))

----------------------------------------------------------------------------
(* token counters *)

\* the four counters of a TokenUsage are non-negative
NonNegative(t) ==
    /\ t.input_tokens >= 0
    /\ t.output_tokens >= 0
    /\ t.cache_read_tokens >= 0
    /\ t.cache_write_tokens >= 0

\* every element of the list has non-negative token counters
AllNonNegative(seq) == \A i \in 1..Len(seq) : NonNegative(seq[i].tokens)

\* C22: every token counter of every Session a collector returns, and of
\* every TokenUsage of an AgentStats that aggregate makes from these
\* Sessions, is greater than or equal to 0, whatever numbers the log records
\* carry.
C22_CountersNonNegative ==
    /\ cc_pc = "returned" => AllNonNegative(cc_result)
    /\ cx_pc = "returned" => AllNonNegative(cx_result)
    /\ oc_pc = "returned" => AllNonNegative(oc_result)
    /\ agg_pc = "returned" =>
          /\ NonNegative(stats.total_tokens)
          /\ AllNonNegative(stats.daily)
          /\ AllNonNegative(stats.models)
          /\ AllNonNegative(stats.projects)

----------------------------------------------------------------------------
(* session ids of one collect() call *)

\* no two elements of the list have the same session_id
DistinctIds(seq) ==
    \A i, j \in 1..Len(seq) : seq[i].session_id = seq[j].session_id => i = j

\* C23: within the list one collect() call of one collector returns, no two
\* Sessions have the same session_id.
C23_UniqueSessionIds ==
    /\ cc_pc = "returned" => DistinctIds(cc_result)
    /\ cx_pc = "returned" => DistinctIds(cx_result)
    /\ oc_pc = "returned" => DistinctIds(oc_result)

----------------------------------------------------------------------------
(* get_collectors *)

\* the four source tools
SourceTools == {"claude_code", "codex", "gemini_cli", "opencode"}

\* C24: get_collectors returns, in the order of config.enabled_agents, one
\* collector for every enabled agent among the four source tools whose data
\* root exists, and none for an agent that is not enabled or whose data root
\* is missing.
C24_OneCollectorPerAvailableAgent ==
    gc_pc = "returned" =>
        collectors = SelectSeq(enabled_agents,
                               LAMBDA name : name \in SourceTools /\ name \in existing_roots)

----------------------------------------------------------------------------
(* push: the gist over several runs *)

\* the positions at which a push command has ended
PushEnded == {"exit0", "exit1", "raised"}

\* this step ends a run of the push command
RunEnds ==
    \/ push_pc \notin PushEnded \cup {"idle"} /\ push_pc' \in PushEnded
    \/ runs' = runs + 1 /\ push_pc' \in PushEnded

\* the gist id the configuration holds when a run starts
ConfiguredGistId == LoadConfig(cfg_file, environ).github.gist_id

\* this step sends a request, and it is the run's only one: a POST when no
\* gist id is configured, a PATCH to the configured id otherwise
SendsTheRequest ==
    requests' # requests /\ requests' # <<>> =>
        /\ Len(requests') = 1
        /\ requests'[1].method = IF ConfiguredGistId = "" THEN "POST" ELSE "PATCH"
        /\ requests'[1].gist_id = ConfiguredGistId

\* an answer 200 / 201 to a POST persists the returned id; a persisted id
\* stays
PersistsTheId ==
    /\ (push_pc = "await" /\ push_pc' = "exit0" /\ requests[1].method = "POST")
          => cfg_file'.gist_id = response'.id /\ response'.id # ""
    /\ cfg_file.gist_id # "" => cfg_file'.gist_id = cfg_file.gist_id

\* any other answer persists nothing and ends the run with an error
OtherStatusIsError ==
    (push_pc = "await" /\ response' # response
        /\ response'.status_code \notin {200, 201})
          => cfg_file' = cfg_file /\ saves' = saves /\ push_pc' = "exit1"

\* C25 as stated: over any sequence of push runs that starts with no gist id
\* configured, a run sends exactly one request, a POST when no gist id is
\* configured and a PATCH to the configured id otherwise; the first run
\* answered 200 or 201 persists the returned id and every later run PATCHes
\* that id; a run answered with another status persists nothing and exits
\* with an error.
C25_EveryRunSendsOneRequest ==
    [][/\ RunEnds => Len(requests') = 1
       /\ SendsTheRequest
       /\ PersistsTheId
       /\ OtherStatusIsError]_vars

\* C25 amended: a run that finds a token, is not a dry run and whose stats
\* sanitize accepts sends exactly one request, a POST when no gist id is
\* configured and a PATCH to the configured id otherwise; a run that finds
\* no token, is a dry run or whose stats sanitize rejects sends none. The
\* first run answered 200 or 201 persists the returned id and every later
\* run that sends PATCHes that id; a run answered with another status
\* persists nothing and exits with an error.
C25_PublishingRunSendsOneRequest ==
    [][/\ RunEnds =>
             Len(requests') = IF /\ config'.github.token # ""
                                 /\ san_pc' = "returned"
                                 /\ ~args'.dry_run
                              THEN 1 ELSE 0
       /\ SendsTheRequest
       /\ PersistsTheId
       /\ OtherStatusIsError]_vars

\* the second run has sent its PATCH to the gist the first run created
C25_Witness ==
    /\ runs = 2
    /\ push_pc = "await"
    /\ cfg_file.gist_id = "g1"
    /\ Len(requests) = 1
    /\ requests[1].method = "PATCH"
    /\ requests[1].gist_id = "g1"

----------------------------------------------------------------------------
(* the crontab across scheduler calls *)

\* the lines of a crontab as cron reads them: cut at the newlines
CronLinesOf(text) == SplitAt(text, {"\n"})

HasMarker(line) == Contains(line, CRONTAB_MARKER)

\* the lines of the crontab without the marker, in order
UserLines(text) == SelectSeq(CronLinesOf(text), LAMBDA line : ~HasMarker(line))

\* the number of lines of the crontab with the marker
MarkerLines(text) == Len(SelectSeq(CronLinesOf(text), HasMarker))

\* C26: after any sequence of schedule and unschedule calls on an existing
\* crontab, every line without the marker is still present, unchanged and in
\* its original order; the crontab holds exactly one marker line after a
\* schedule call and none after an unschedule call.
C26_CrontabPreserved ==
    cron_calls # <<>> =>
        /\ UserLines(crontab) = UserLines(cron_original)
        /\ MarkerLines(crontab) =
              IF cron_calls[Len(cron_calls)] = "schedule" THEN 1 ELSE 0

----------------------------------------------------------------------------
(* load_config: file and environment *)

\* C27: in load_config the environment variables are only fallbacks: for
\* the GitHub token, the gist id and default_days, a value set in the TOML
\* file (a non-empty token or gist id, a default_days other than the
\* default 30) takes precedence over GITHUB_TOKEN, VIBE_CLOCK_GIST_ID and
\* VIBE_CLOCK_DAYS.
C27_FileTakesPrecedence ==
    lc_pc = "returned" =>
        /\ cfg_file.token # "" => config.github.token = cfg_file.token
        /\ cfg_file.gist_id # "" => config.github.gist_id = cfg_file.gist_id
        /\ cfg_file.default_days # 30 => config.default_days = cfg_file.default_days

----------------------------------------------------------------------------
(* push: what a created gist leaves in the configuration file *)

\* C28: a push run that creates a gist changes only github.gist_id in the
\* persisted configuration: every other persisted value equals what the
\* configuration file held before the run, also when --days or the
\* GITHUB_TOKEN / VIBE_CLOCK_DAYS environment variables are set for the run.
C28_OnlyGistIdPersisted ==
    [][saves' = saves + 1 =>
          /\ cfg_file'.gist_id = response'.id
          /\ [cfg_file' EXCEPT !.gist_id = cfg_file.gist_id] = cfg_file]_vars

----------------------------------------------------------------------------
(* aggregate: favorite model and the models list *)

\* C29: in every AgentStats aggregate returns with at least one retained
\* session, favorite_model is the model of the first entry of the models
\* list, also when several models tie on session count.
C29_FavoriteIsFirstModel ==
    (agg_pc = "returned" /\ Retained # <<>>) =>
        /\ stats.models # <<>>
        /\ stats.favorite_model = stats.models[1].model

\* two retained sessions of different models: the models tie with one
\* session each, and the favorite is the first of the list
C29_Witness ==
    /\ agg_pc = "returned"
    /\ Len(Retained) = 2
    /\ Retained[1].model # Retained[2].model
    /\ Len(stats.models) = 2
    /\ stats.models[1].session_count = stats.models[2].session_count
    /\ stats.favorite_model = stats.models[1].model

----------------------------------------------------------------------------
(* sanitize: favorite model and the published models list *)

\* C30: in every value sanitize returns, favorite_model is either empty or
\* the model name of an entry of the returned models list; it is never a
\* placeholder name that was filtered out of the model breakdown.
C30_FavoriteAmongPublishedModels ==
    san_pc = "returned" =>
        \/ data.favorite_model = ""
        \/ \E i \in 1..Len(data.models) : data.models[i].model = data.favorite_model

====
